---- MODULE Spec2Model ----
(***************************************************************************)
(* Darian (Martian) calendar arithmetic of darian_datetime/__init__.py:    *)
(* the calendar math helpers, the Mtimedelta duration value, and the       *)
(* offset-aware comparison and hashing of Mdatetime.                       *)
(*                                                                         *)
(* The library is a set of pure functions over immutable values, so the    *)
(* state of a run is the call being made and what it returned:             *)
(*   call  a record [fn |-> name, args |-> tuple of arguments]             *)
(*   ret   the value returned, or the name of the exception raised         *)
(* The one field written after construction is the hash cache _hashcode.   *)
(* Where threads hash one shared instance the state is also                *)
(*   obj    the shared instance: its class, its fields, its _hashcode      *)
(*   pc     each thread's position inside __hash__                         *)
(*   local  what each thread holds in its own frame                        *)
(* and ret is then the value returned to each thread.                      *)
(* Python's // and % on a positive divisor are \div and % here (both       *)
(* floor).  A raised exception is the record [exc |-> its class name];     *)
(* a call that returns a plain number or truth value and may raise returns *)
(* [value |-> v] instead, so that both outcomes can be told apart.         *)
(***************************************************************************)
EXTENDS Integers, Sequences, FiniteSets, TLC

VARIABLES call, ret, obj, pc, local

vars == <<call, ret, obj, pc, local>>

\* The shared instance and the threads working on it.
heap == <<obj, pc, local>>

None == [none |-> TRUE]

ValueError == [exc |-> "ValueError"]
TypeError == [exc |-> "TypeError"]
OverflowError == [exc |-> "OverflowError"]
ZeroDivisionError == [exc |-> "ZeroDivisionError"]
AssertionError == [exc |-> "AssertionError"]
IndexError == [exc |-> "IndexError"]

\* Whether a call ended by raising.
Raised(x) ==
    x \in {ValueError, TypeError, OverflowError, ZeroDivisionError,
           AssertionError, IndexError}

(***************************************************************************)
(* Module constants.                                                       *)
(***************************************************************************)
MMINYEAR == 0
MMAXYEAR == 9999
_MAXORDINAL == 6685945

(***************************************************************************)
(* Calendar math.                                                          *)
(***************************************************************************)

\* _is_leap with the 4801..6800 band's exception modulus taken from the
\* 2001..4800 band (150 instead of 200).
_is_leap_band_slip(y) ==
    IF y <= 2000 THEN
        IF y % 1000 = 0 THEN TRUE
        ELSE IF y % 100 = 0 THEN FALSE
        ELSE IF y % 10 = 0 THEN TRUE
        ELSE IF y % 2 = 1 THEN TRUE
        ELSE FALSE
    ELSE IF y <= 4800 THEN
        IF y % 150 = 0 THEN FALSE
        ELSE IF y % 10 = 0 THEN TRUE
        ELSE IF y % 2 = 1 THEN TRUE
        ELSE FALSE
    ELSE IF y <= 6800 THEN
        IF y % 150 = 0 THEN FALSE
        ELSE IF y % 10 = 0 THEN TRUE
        ELSE IF y % 2 = 1 THEN TRUE
        ELSE FALSE
    ELSE IF y <= 8400 THEN
        IF y % 300 = 0 THEN FALSE
        ELSE IF y % 10 = 0 THEN TRUE
        ELSE IF y % 2 = 1 THEN TRUE
        ELSE FALSE
    ELSE
        IF y % 600 = 0 THEN FALSE
        ELSE IF y % 10 = 0 THEN TRUE
        ELSE IF y % 2 = 1 THEN TRUE
        ELSE FALSE

\* y(year) -> TRUE if leap year, else FALSE.
_is_leap(y) ==
    IF y <= 2000 THEN
        IF y % 1000 = 0 THEN TRUE
        ELSE IF y % 100 = 0 THEN FALSE
        ELSE IF y % 10 = 0 THEN TRUE
        ELSE IF y % 2 = 1 THEN TRUE
        ELSE FALSE
    ELSE IF y <= 4800 THEN
        IF y % 150 = 0 THEN FALSE
        ELSE IF y % 10 = 0 THEN TRUE
        ELSE IF y % 2 = 1 THEN TRUE
        ELSE FALSE
    ELSE IF y <= 6800 THEN
        IF y % 200 = 0 THEN FALSE
        ELSE IF y % 10 = 0 THEN TRUE
        ELSE IF y % 2 = 1 THEN TRUE
        ELSE FALSE
    ELSE IF y <= 8400 THEN
        IF y % 300 = 0 THEN FALSE
        ELSE IF y % 10 = 0 THEN TRUE
        ELSE IF y % 2 = 1 THEN TRUE
        ELSE FALSE
    ELSE
        IF y % 600 = 0 THEN FALSE
        ELSE IF y % 10 = 0 THEN TRUE
        ELSE IF y % 2 = 1 THEN TRUE
        ELSE FALSE

\* _sols_before_year whose 4801..6800 band carries the constant 12 in place
\* of 13.
_sols_before_year_band_constant(y) ==
    LET x == y - 1 IN
    IF y <= 2000 THEN
        y*669 - (x \div 2) + (x \div 10) - (x \div 100) + (x \div 1000)
    ELSE IF y <= 4800 THEN
        y*669 - (x \div 2) + (x \div 10) - (x \div 150) - 5
    ELSE IF y <= 6800 THEN
        y*669 - (x \div 2) + (x \div 10) - (x \div 200) - 12
    ELSE IF y <= 8400 THEN
        y*669 - (x \div 2) + (x \div 10) - (x \div 300) - 25
    ELSE
        y*669 - (x \div 2) + (x \div 10) - (x \div 600) - 39

\* y(year) -> number of sols before the first sol of the year.
_sols_before_year(y) ==
    LET x == y - 1 IN
    IF y <= 2000 THEN
        y*669 - (x \div 2) + (x \div 10) - (x \div 100) + (x \div 1000)
    ELSE IF y <= 4800 THEN
        y*669 - (x \div 2) + (x \div 10) - (x \div 150) - 5
    ELSE IF y <= 6800 THEN
        y*669 - (x \div 2) + (x \div 10) - (x \div 200) - 13
    ELSE IF y <= 8400 THEN
        y*669 - (x \div 2) + (x \div 10) - (x \div 300) - 25
    ELSE
        y*669 - (x \div 2) + (x \div 10) - (x \div 600) - 39

\* y(year), m(month) -> number of sols in that month in that year, or
\* AssertionError for a month outside 1..24.
_sols_in_month(y, m) ==
    IF m \notin 1..24 THEN AssertionError
    ELSE IF m \in {6, 12, 18} THEN 27
    ELSE IF m = 24 /\ ~_is_leap(y) THEN 27
    ELSE 28

\* month -> number of sols in the year preceding the first sol of month, or
\* AssertionError for a month outside 1..24.
_sols_before_month(month) ==
    IF month \notin 1..24 THEN AssertionError
    ELSE (month - 1)*28 - ((month - 1) \div 6)

\* year, month, sol -> ordinal, considering 01-Sag-0000 as sol 1, or
\* AssertionError for a month outside 1..24 or a sol outside the month.
_ymd2ord(year, month, sol) ==
    IF month \notin 1..24 THEN AssertionError
    ELSE IF sol \notin 1.._sols_in_month(year, month) THEN AssertionError
    ELSE _sols_before_year(year) + _sols_before_month(month) + sol

\* int(n // 668.59): the floor of n divided by the double nearest to 668.59,
\* which is 668.59000000000003...; the quotient by the double is below the
\* exact n / 668.59 by less than 1e-10, so the floors differ only when
\* n / 668.59 is a whole number, that is when n is a positive multiple of 66859.
YearEstimate(n) ==
    ((n * 100) \div 66859) - (IF n > 0 /\ n % 66859 = 0 THEN 1 ELSE 0)

\* _ord2ymd without the "estimate is too large" correction of the year, and
\* with the sols before a month computed for any month number, asserting
\* nothing.
_ord2ymd_no_down(n) ==
    LET before(m) == (m - 1)*28 - ((m - 1) \div 6)
        est   == YearEstimate(n)
        year  == IF n > _sols_before_year(est + 1) THEN est + 1 ELSE est
        n1    == n - _sols_before_year(year)
        mest  == (n1 \div 28) + 1
        month == IF n1 <= before(mest) THEN mest - 1
                 ELSE IF mest < 24 /\ n1 > before(mest + 1)
                      THEN mest + 1
                 ELSE mest
    IN  <<year, month, n1 - before(month)>>

\* ordinal -> <<year, month, sol>>, considering 01-Sag-0000 as sol 1.
_ord2ymd(n) ==
    LET est   == YearEstimate(n)
        year  == IF n <= _sols_before_year(est) THEN est - 1
                 ELSE IF n > _sols_before_year(est + 1) THEN est + 1
                 ELSE est
        n1    == n - _sols_before_year(year)
        mest  == (n1 \div 28) + 1
        month == IF n1 <= _sols_before_month(mest) THEN mest - 1
                 ELSE IF mest < 24 /\ n1 > _sols_before_month(mest + 1)
                      THEN mest + 1
                 ELSE mest
    IN  <<year, month, n1 - _sols_before_month(month)>>

\* _check_date_fields on integer arguments: the first failing check, in the
\* order year, month, sol, raises ValueError; otherwise the fields come back
\* (as a record, to be told apart from an exception).
_check_date_fields(year, month, sol) ==
    IF ~(MMINYEAR <= year /\ year <= MMAXYEAR) THEN ValueError
    ELSE IF ~(1 <= month /\ month <= 24) THEN ValueError
    ELSE IF ~(1 <= sol /\ sol <= _sols_in_month(year, month)) THEN ValueError
    ELSE [year |-> year, month |-> month, sol |-> sol]

\* Mdate.__new__ on integer fields: the instance's _year, _month, _sol.
Mdate(year, month, sol) == _check_date_fields(year, month, sol)

\* Mdate.fromordinal(n)
Mdate_fromordinal(n) ==
    LET ymd == _ord2ymd(n) IN Mdate(ymd[1], ymd[2], ymd[3])

\* Mdate.toordinal()
Mdate_toordinal(d) == _ymd2ord(d.year, d.month, d.sol)

(***************************************************************************)
(* Inputs of the calendar specification.                                   *)
(***************************************************************************)

\* How far on each side of a year's or a month's first sol the ordinals and
\* sols given to the calendar functions reach.
EdgeWidth == 2

Years == MMINYEAR..MMAXYEAR

\* The last year of each leap-rule band, the first year of the next one, and
\* the ends of the supported range.
BandYears == {0, 1, 219, 1000, 2000, 2001, 2100, 4800, 4801, 4950, 6800, 6801,
              8400, 8401, 9000, 9998, 9999}

\* Ordinals around the first sol of every year.
YearEdgeOrdinals ==
    {n \in UNION {{_sols_before_year(y) + k : k \in (-EdgeWidth)..EdgeWidth} :
                  y \in MMINYEAR..(MMAXYEAR + 1)} :
        1 <= n /\ n <= _MAXORDINAL}

\* Ordinals around the first sol of every month of the band years.
MonthEdgeOrdinals ==
    {n \in UNION {{_sols_before_year(y) + _sols_before_month(m) + k :
                      k \in (-EdgeWidth)..EdgeWidth} :
                  <<y, m>> \in BandYears \X (1..24)} :
        1 <= n /\ n <= _MAXORDINAL}

\* Ordinals at which the floating-point year estimate differs from the exact
\* quotient.
EstimateOrdinals == {66859 * k : k \in 1..100}

Ordinals == YearEdgeOrdinals \cup MonthEdgeOrdinals \cup EstimateOrdinals

\* Sols at both ends of a month.
EdgeSols == (1..(1 + EdgeWidth)) \cup ((27 - EdgeWidth)..28)

\* Valid dates: both ends of every year, and both ends of every month of the
\* band years.
Dates ==
    {d \in (Years \X {1, 24} \X {1, 27, 28}) \cup (BandYears \X (1..24) \X EdgeSols) :
        d[3] <= _sols_in_month(d[1], d[2])}

(***************************************************************************)
(* Calendar specification: a run is one call of a calendar function on one *)
(* input; the functions keep no state, so a run of several calls is the    *)
(* same calls made in separate runs.                                       *)
(***************************************************************************)
Init ==
    /\ call = [fn |-> "start", args |-> <<>>]
    /\ ret = None
    /\ obj = None
    /\ pc = <<>>
    /\ local = <<>>

\* No call has been made yet.
Idle == call.fn = "start"

IsLeap ==
    /\ Idle
    /\ UNCHANGED heap
    /\ \E y \in Years :
          /\ call' = [fn |-> "_is_leap", args |-> <<y>>]
          /\ ret' = _is_leap(y)

Ord2Ymd ==
    /\ Idle
    /\ UNCHANGED heap
    /\ \E n \in Ordinals :
          /\ call' = [fn |-> "_ord2ymd", args |-> <<n>>]
          /\ ret' = _ord2ymd(n)

Ymd2Ord ==
    /\ Idle
    /\ UNCHANGED heap
    /\ \E d \in Dates :
          /\ call' = [fn |-> "_ymd2ord", args |-> d]
          /\ ret' = _ymd2ord(d[1], d[2], d[3])

FromOrdinal ==
    /\ Idle
    /\ UNCHANGED heap
    /\ \E n \in Ordinals :
          /\ call' = [fn |-> "Mdate.fromordinal", args |-> <<n>>]
          /\ ret' = Mdate_fromordinal(n)

NextCal == IsLeap \/ Ord2Ymd \/ Ymd2Ord \/ FromOrdinal

SpecCal == Init /\ [][NextCal]_vars

(***************************************************************************)
(* C1.                                                                     *)
(***************************************************************************)
ValidYmd(t) ==
    /\ MMINYEAR <= t[1] /\ t[1] <= MMAXYEAR
    /\ 1 <= t[2] /\ t[2] <= 24
    /\ 1 <= t[3] /\ t[3] <= _sols_in_month(t[1], t[2])

\* C1: _ord2ymd and _ymd2ord are mutually inverse over the supported range:
\* for an ordinal n in [1, 6685945], _ord2ymd(n) is a valid (year, month, sol)
\* within one step of the year estimate, _ymd2ord of it is n again, and
\* Mdate.fromordinal(n) builds that date without a ValueError; for a valid
\* (year, month, sol), _ord2ymd(_ymd2ord(year, month, sol)) is it again.
C1_RoundTrip ==
    /\ call.fn = "_ord2ymd" =>
          /\ ValidYmd(ret)
          /\ _ymd2ord(ret[1], ret[2], ret[3]) = call.args[1]
          /\ ret[1] - YearEstimate(call.args[1]) \in {-1, 0, 1}
    /\ call.fn = "Mdate.fromordinal" =>
          /\ ~Raised(ret)
          /\ Mdate_toordinal(ret) = call.args[1]
    /\ call.fn = "_ymd2ord" =>
          /\ 1 <= ret /\ ret <= _MAXORDINAL
          /\ _ord2ymd(ret) = call.args

\* An ordinal whose year estimate was one too large and was corrected downward.
C1_Witness ==
    /\ call.fn = "_ord2ymd"
    /\ ret[1] = YearEstimate(call.args[1]) - 1
    /\ _ymd2ord(ret[1], ret[2], ret[3]) = call.args[1]

(***************************************************************************)
(* C2.                                                                     *)
(***************************************************************************)
\* The exception (non-leap) modulus of the band a year lies in.
BandException(y) ==
    CASE y <= 2000 -> 100
      [] y >= 2001 /\ y <= 4800 -> 150
      [] y >= 4801 /\ y <= 6800 -> 200
      [] y >= 6801 /\ y <= 8400 -> 300
      [] y > 8400 -> 600

\* The five-band rule in priority order.
LeapRule(y) ==
    IF y <= 2000 /\ y % 1000 = 0 THEN TRUE
    ELSE IF y % BandException(y) = 0 THEN FALSE
    ELSE IF y % 10 = 0 THEN TRUE
    ELSE y % 2 = 1

\* C2: for every year in 0..9999 _is_leap is the five-band rule evaluated in
\* priority order; 2000, 2010 and 2001 are leap and 2100 is not.
C2_LeapRule ==
    call.fn = "_is_leap" =>
        /\ ret = LeapRule(call.args[1])
        /\ call.args[1] \in {2000, 2010, 2001} => ret = TRUE
        /\ call.args[1] = 2100 => ret = FALSE

\* A year of the 4801..6800 band that the band's own modulus (200) makes
\* non-leap although it is divisible by 10.
C2_Witness ==
    /\ call.fn = "_is_leap"
    /\ call.args[1] = 5000
    /\ ret = FALSE

(***************************************************************************)
(* Mtimedelta.  An instance is the record                                  *)
(*   [sols |-> _sols, seconds |-> _seconds, microseconds |-> _microseconds]*)
(* The model covers integer arguments; divmod(a, b) of Python on a         *)
(* positive b is <<a \div b, a % b>>.                                      *)
(***************************************************************************)

\* The largest |sols| an Mtimedelta may hold.
MaxSols == 999999999

\* Mtimedelta.__new__ without the last carry of seconds into sols.
Mtimedelta_no_last_carry(sols, seconds, microseconds, milliseconds, minutes, hours, weeks) ==
    LET sols1 == sols + weeks*7
        secs1 == seconds + minutes*60 + hours*3600
        usec1 == microseconds + milliseconds*1000
        d1    == sols1 + (secs1 \div (24*3600))
        s1    == secs1 % (24*3600)
        secs2 == usec1 \div 1000000
        usec2 == usec1 % 1000000
        d2    == d1 + (secs2 \div (24*3600))
        s2    == s1 + (secs2 % (24*3600))
        us    == usec2 % 1000000
        s3    == s2 + (usec2 \div 1000000)
    IN  IF (IF d2 < 0 THEN -d2 ELSE d2) > MaxSols THEN OverflowError
        ELSE [sols |-> d2, seconds |-> s3, microseconds |-> us]

\* Mtimedelta.__new__ with the overflow check made on the sols argument,
\* before the carries from seconds and microseconds.
Mtimedelta_early_check(sols, seconds, microseconds, milliseconds, minutes, hours, weeks) ==
    LET sols1 == sols + weeks*7
        secs1 == seconds + minutes*60 + hours*3600
        usec1 == microseconds + milliseconds*1000
        d1    == sols1 + (secs1 \div (24*3600))
        s1    == secs1 % (24*3600)
        secs2 == usec1 \div 1000000
        usec2 == usec1 % 1000000
        d2    == d1 + (secs2 \div (24*3600))
        s2    == s1 + (secs2 % (24*3600))
        us    == usec2 % 1000000
        s3    == s2 + (usec2 \div 1000000)
        d     == d2 + (s3 \div (24*3600))
        s     == s3 % (24*3600)
    IN  IF (IF sols1 < 0 THEN -sols1 ELSE sols1) > MaxSols THEN OverflowError
        ELSE [sols |-> d, seconds |-> s, microseconds |-> us]

\* Mtimedelta.__new__ that drops the whole seconds carried out of the
\* microseconds argument.
Mtimedelta_lost_carry(sols, seconds, microseconds, milliseconds, minutes, hours, weeks) ==
    LET sols1 == sols + weeks*7
        secs1 == seconds + minutes*60 + hours*3600
        usec1 == microseconds + milliseconds*1000
        d1    == sols1 + (secs1 \div (24*3600))
        s1    == secs1 % (24*3600)
        usec2 == usec1 % 1000000
        us    == usec2 % 1000000
        s3    == s1 + (usec2 \div 1000000)
        d     == d1 + (s3 \div (24*3600))
        s     == s3 % (24*3600)
    IN  IF (IF d < 0 THEN -d ELSE d) > MaxSols THEN OverflowError
        ELSE [sols |-> d, seconds |-> s, microseconds |-> us]

\* Mtimedelta.__new__(sols, seconds, microseconds, milliseconds, minutes,
\* hours, weeks) on integers: every fraction of the source is 0.0, so
\* round(microseconds + usdouble) is microseconds.
Mtimedelta(sols, seconds, microseconds, milliseconds, minutes, hours, weeks) ==
    LET \* Normalize everything to sols, seconds, microseconds.
        sols1 == sols + weeks*7
        secs1 == seconds + minutes*60 + hours*3600
        usec1 == microseconds + milliseconds*1000
        \* sols, seconds = divmod(seconds, 24*3600); d += sols; s += seconds
        d1    == sols1 + (secs1 \div (24*3600))
        s1    == secs1 % (24*3600)
        \* seconds, microseconds = divmod(microseconds, 1000000)
        secs2 == usec1 \div 1000000
        usec2 == usec1 % 1000000
        \* sols, seconds = divmod(seconds, 24*3600); d += sols; s += seconds
        d2    == d1 + (secs2 \div (24*3600))
        s2    == s1 + (secs2 % (24*3600))
        \* seconds, us = divmod(microseconds, 1000000); s += seconds
        us    == usec2 % 1000000
        s3    == s2 + (usec2 \div 1000000)
        \* sols, s = divmod(s, 24*3600); d += sols
        d     == d2 + (s3 \div (24*3600))
        s     == s3 % (24*3600)
    IN  IF (IF d < 0 THEN -d ELSE d) > MaxSols THEN OverflowError
        ELSE [sols |-> d, seconds |-> s, microseconds |-> us]

\* Mtimedelta(sols, seconds, microseconds)
Mtimedelta3(sols, seconds, microseconds) ==
    Mtimedelta(sols, seconds, microseconds, 0, 0, 0, 0)

\* Mtimedelta._getstate()
Mtimedelta__getstate(self) == <<self.sols, self.seconds, self.microseconds>>

\* The module's _cmp(x, y) on two tuples of integers of the same length:
\* 0 if x == y else 1 if x > y else -1, tuples being ordered lexicographically.
RECURSIVE _cmp(_, _)
_cmp(x, y) ==
    IF x = <<>> THEN 0
    ELSE IF Head(x) = Head(y) THEN _cmp(Tail(x), Tail(y))
    ELSE IF Head(x) > Head(y) THEN 1
    ELSE -1

\* Mtimedelta._cmp(other)
Mtimedelta__cmp(self, other) ==
    _cmp(Mtimedelta__getstate(self), Mtimedelta__getstate(other))

\* Mtimedelta.__eq__(other) for an Mtimedelta other
Mtimedelta__eq(self, other) == Mtimedelta__cmp(self, other) = 0

\* Mtimedelta.__lt__(other)
Mtimedelta__lt(self, other) == Mtimedelta__cmp(self, other) < 0

\* Mtimedelta.__bool__()
Mtimedelta__bool(self) ==
    self.sols # 0 \/ self.seconds # 0 \/ self.microseconds # 0

\* Mtimedelta.__add__ that forgets the microseconds of other.
Mtimedelta__add_no_us(self, other) ==
    Mtimedelta3(self.sols + other.sols,
                self.seconds + other.seconds,
                self.microseconds)

\* Mtimedelta.__add__(other)
Mtimedelta__add(self, other) ==
    Mtimedelta3(self.sols + other.sols,
                self.seconds + other.seconds,
                self.microseconds + other.microseconds)

\* Mtimedelta.__sub__(other)
Mtimedelta__sub(self, other) ==
    Mtimedelta3(self.sols - other.sols,
                self.seconds - other.seconds,
                self.microseconds - other.microseconds)

\* Mtimedelta.__neg__ that changes the sign of the sols alone.
Mtimedelta__neg_sols_only(self) ==
    Mtimedelta3(-self.sols, self.seconds, self.microseconds)

\* Mtimedelta.__neg__()
Mtimedelta__neg(self) ==
    Mtimedelta3(-self.sols, -self.seconds, -self.microseconds)

\* Mtimedelta.__abs__()
Mtimedelta__abs(self) ==
    IF self.sols < 0 THEN Mtimedelta__neg(self) ELSE self

\* Mtimedelta.__mul__(other) for an integer other
Mtimedelta__mul(self, other) ==
    Mtimedelta3(self.sols * other, self.seconds * other, self.microseconds * other)

\* Mtimedelta._to_microseconds()
Mtimedelta__to_microseconds(self) ==
    ((self.sols * (24*3600) + self.seconds) * 1000000) + self.microseconds

\* Python's a // b and a % b for integers and b # 0 (floor division, the
\* remainder taking the sign of b).
FloorDiv(a, b) == IF b > 0 THEN a \div b ELSE (-a) \div (-b)
FloorMod(a, b) == a - b * FloorDiv(a, b)

\* _divide_and_round that takes an exact half to the next integer up.
_divide_and_round_half_up(a, b) ==
    LET q == FloorDiv(a, b)
        r == 2 * FloorMod(a, b)
    IN  IF (IF b > 0 THEN r >= b ELSE r <= b) THEN q + 1 ELSE q

\* _divide_and_round(a, b): a / b rounded to the nearest integer, a half
\* going to the even one.
_divide_and_round(a, b) ==
    LET q == FloorDiv(a, b)
        r == 2 * FloorMod(a, b)
        greater_than_half == IF b > 0 THEN r > b ELSE r < b
    IN  IF greater_than_half \/ (r = b /\ q % 2 = 1) THEN q + 1 ELSE q

\* Mtimedelta.__floordiv__(other) for an integer other
Mtimedelta__floordiv_int(self, other) ==
    IF other = 0 THEN ZeroDivisionError
    ELSE Mtimedelta3(0, 0, FloorDiv(Mtimedelta__to_microseconds(self), other))

\* Mtimedelta.__truediv__(other) for an integer other
Mtimedelta__truediv_int(self, other) ==
    IF other = 0 THEN ZeroDivisionError
    ELSE Mtimedelta3(0, 0, _divide_and_round(Mtimedelta__to_microseconds(self), other))

\* Mtimedelta.__mod__(other) for an Mtimedelta other
Mtimedelta__mod(self, other) ==
    IF Mtimedelta__to_microseconds(other) = 0 THEN ZeroDivisionError
    ELSE Mtimedelta3(0, 0, FloorMod(Mtimedelta__to_microseconds(self),
                                    Mtimedelta__to_microseconds(other)))

\* Mtimedelta.__divmod__ whose quotient is rounded toward zero, with the
\* remainder that goes with it.
Mtimedelta__divmod_truncating(self, other) ==
    LET a == Mtimedelta__to_microseconds(self)
        b == Mtimedelta__to_microseconds(other)
        abs_a == IF a < 0 THEN -a ELSE a
        abs_b == IF b < 0 THEN -b ELSE b
        q == IF (a < 0) = (b < 0) THEN abs_a \div abs_b ELSE -(abs_a \div abs_b)
    IN  IF b = 0 THEN ZeroDivisionError
        ELSE [q |-> q, r |-> Mtimedelta3(0, 0, a - b * q)]

\* Mtimedelta.__divmod__(other) for an Mtimedelta other: [q, r] for (q, r)
Mtimedelta__divmod(self, other) ==
    IF Mtimedelta__to_microseconds(other) = 0 THEN ZeroDivisionError
    ELSE [q |-> FloorDiv(Mtimedelta__to_microseconds(self),
                         Mtimedelta__to_microseconds(other)),
          r |-> Mtimedelta3(0, 0, FloorMod(Mtimedelta__to_microseconds(self),
                                           Mtimedelta__to_microseconds(other)))]

\* Mtimedelta.min, Mtimedelta.max, Mtimedelta.resolution
Mtimedelta_min == Mtimedelta3(-999999999, 0, 0)
Mtimedelta_max == Mtimedelta(999999999, 59, 999999, 0, 59, 23, 0)
Mtimedelta_resolution == Mtimedelta3(0, 0, 1)

(***************************************************************************)
(* Inputs of the Mtimedelta specification.                                 *)
(***************************************************************************)

\* How far on each side of a carry boundary (a whole sol of seconds, a whole
\* second of microseconds, the largest sols) the constructor's arguments reach.
Spread == 1

Around(bases) == {b + k : b \in bases, k \in (-Spread)..Spread}

NewSols == Around({-MaxSols, 0, MaxSols})
NewSeconds == Around({-86400, 0, 86400})
NewMicroseconds == Around({-1000000, 0, 1000000})
NewMilliseconds == {-1, 0, 1000}
NewMinutes == {0, 1440}
NewHours == {-24, 0, 24}
NewWeeks == {-1, 0, 1}

\* Instances used as operands: around zero and at both ends of the range.
TdPool ==
    {Mtimedelta3(d, sec, us) :
        <<d, sec, us>> \in {-MaxSols, -1, 0, 1, MaxSols} \X {0, 1, 86399} \X {0, 1, 999999}}

\* Instances of less than 2^31 microseconds, whose _to_microseconds() the
\* model can hold in one integer.
SmallPool ==
    {Mtimedelta3(0, sec, us) :
        <<sec, us>> \in {-1, 0, 1, 2000} \X {-1, 0, 1, 500000, 999999}}

Factors == {-2, -1, 0, 1, 2}
Divisors == {-4, -3, -2, -1, 0, 1, 2, 3, 4}

(***************************************************************************)
(* Mtimedelta specification: a run is one expression over Mtimedelta.      *)
(***************************************************************************)
TdNew ==
    /\ Idle
    /\ UNCHANGED heap
    /\ \E a \in NewSols \X NewSeconds \X NewMicroseconds \X NewMilliseconds
                \X NewMinutes \X NewHours \X NewWeeks :
          /\ call' = [fn |-> "Mtimedelta", args |-> a]
          /\ ret' = Mtimedelta(a[1], a[2], a[3], a[4], a[5], a[6], a[7])

TdAdd ==
    /\ Idle
    /\ UNCHANGED heap
    /\ \E a \in TdPool, b \in TdPool :
          /\ call' = [fn |-> "Mtimedelta.__add__", args |-> <<a, b>>]
          /\ ret' = Mtimedelta__add(a, b)

TdSub ==
    /\ Idle
    /\ UNCHANGED heap
    /\ \E a \in TdPool, b \in TdPool :
          /\ call' = [fn |-> "Mtimedelta.__sub__", args |-> <<a, b>>]
          /\ ret' = Mtimedelta__sub(a, b)

\* (a + b) - b: the subtraction is made only if the addition returned.
TdAddSub ==
    /\ Idle
    /\ UNCHANGED heap
    /\ \E a \in TdPool, b \in TdPool :
          /\ call' = [fn |-> "(a + b) - b", args |-> <<a, b>>]
          /\ ret' = LET sum == Mtimedelta__add(a, b) IN
                    IF Raised(sum) THEN sum ELSE Mtimedelta__sub(sum, b)

TdNeg ==
    /\ Idle
    /\ UNCHANGED heap
    /\ \E a \in TdPool :
          /\ call' = [fn |-> "Mtimedelta.__neg__", args |-> <<a>>]
          /\ ret' = Mtimedelta__neg(a)

TdAbs ==
    /\ Idle
    /\ UNCHANGED heap
    /\ \E a \in TdPool :
          /\ call' = [fn |-> "Mtimedelta.__abs__", args |-> <<a>>]
          /\ ret' = Mtimedelta__abs(a)

TdMul ==
    /\ Idle
    /\ UNCHANGED heap
    /\ \E a \in TdPool, k \in Factors :
          /\ call' = [fn |-> "Mtimedelta.__mul__", args |-> <<a, k>>]
          /\ ret' = Mtimedelta__mul(a, k)

TdFloorDiv ==
    /\ Idle
    /\ UNCHANGED heap
    /\ \E a \in SmallPool, k \in Divisors :
          /\ call' = [fn |-> "Mtimedelta.__floordiv__", args |-> <<a, k>>]
          /\ ret' = Mtimedelta__floordiv_int(a, k)

TdTrueDiv ==
    /\ Idle
    /\ UNCHANGED heap
    /\ \E a \in SmallPool, k \in Divisors :
          /\ call' = [fn |-> "Mtimedelta.__truediv__", args |-> <<a, k>>]
          /\ ret' = Mtimedelta__truediv_int(a, k)

TdMod ==
    /\ Idle
    /\ UNCHANGED heap
    /\ \E a \in SmallPool, b \in SmallPool :
          /\ call' = [fn |-> "Mtimedelta.__mod__", args |-> <<a, b>>]
          /\ ret' = Mtimedelta__mod(a, b)

TdDivmod ==
    /\ Idle
    /\ UNCHANGED heap
    /\ \E a \in SmallPool, b \in SmallPool :
          /\ call' = [fn |-> "Mtimedelta.__divmod__", args |-> <<a, b>>]
          /\ ret' = Mtimedelta__divmod(a, b)

\* -(-a): the second negation is made only if the first returned.
TdNegNeg ==
    /\ Idle
    /\ UNCHANGED heap
    /\ \E a \in TdPool :
          /\ call' = [fn |-> "-(-a)", args |-> <<a>>]
          /\ \E neg \in {Mtimedelta__neg(a)} :
                ret' = IF Raised(neg) THEN neg ELSE Mtimedelta__neg(neg)

\* a + (-a): the addition is made only if the negation returned.
TdAddNeg ==
    /\ Idle
    /\ UNCHANGED heap
    /\ \E a \in TdPool :
          /\ call' = [fn |-> "a + (-a)", args |-> <<a>>]
          /\ \E neg \in {Mtimedelta__neg(a)} :
                ret' = IF Raised(neg) THEN neg ELSE Mtimedelta__add(a, neg)

NextTd ==
    \/ TdNew \/ TdAdd \/ TdSub \/ TdAddSub \/ TdNeg \/ TdAbs \/ TdMul
    \/ TdFloorDiv \/ TdTrueDiv \/ TdMod \/ TdDivmod
    \/ TdNegNeg \/ TdAddNeg

SpecTd == Init /\ [][NextTd]_vars

(***************************************************************************)
(* C3.                                                                     *)
(***************************************************************************)
\* The calls that return an Mtimedelta.
TdFns == {"Mtimedelta", "Mtimedelta.__add__", "Mtimedelta.__sub__", "(a + b) - b",
          "Mtimedelta.__neg__", "Mtimedelta.__abs__", "Mtimedelta.__mul__",
          "Mtimedelta.__floordiv__", "Mtimedelta.__truediv__", "Mtimedelta.__mod__"}

\* The data-model invariant of an Mtimedelta.
ValidTd(t) ==
    /\ 0 <= t.seconds /\ t.seconds <= 86399
    /\ 0 <= t.microseconds /\ t.microseconds <= 999999
    /\ -999999999 <= t.sols /\ t.sols <= 999999999

\* C3: every Mtimedelta that a constructor call or +, -, unary -, abs, *, //,
\* /, % or divmod returns has seconds in 0..86399, microseconds in 0..999999
\* and |sols| <= 999999999.
C3_Normalized ==
    /\ call.fn \in TdFns => (Raised(ret) \/ ValidTd(ret))
    /\ call.fn = "Mtimedelta.__divmod__" => (Raised(ret) \/ ValidTd(ret.r))

\* The negation of a positive duration with sub-sol parts: the sign is in
\* sols alone, seconds and microseconds stay positive.
C3_Witness ==
    /\ call.fn = "Mtimedelta.__neg__"
    /\ call.args[1].sols = 0 /\ call.args[1].seconds = 1 /\ call.args[1].microseconds = 1
    /\ ret = [sols |-> -1, seconds |-> 86398, microseconds |-> 999999]

(***************************************************************************)
(* C4.                                                                     *)
(***************************************************************************)
\* The whole sols of the exact total of the constructor's arguments a:
\* floor(total microseconds / (86400 * 10^6)), computed in mixed radix.
ExactSeconds(a) ==
    a[2] + a[5]*60 + a[6]*3600 + ((a[3] + a[4]*1000) \div 1000000)
ExactSols(a) == a[1] + a[7]*7 + (ExactSeconds(a) \div 86400)

\* C4: the constructor raises OverflowError exactly when the normalized sols
\* exceed 999999999 in absolute value, the carries from seconds and
\* microseconds counted in; Mtimedelta(sols=1000000000) fails and
\* Mtimedelta(sols=999999999) succeeds.
C4_Overflow ==
    call.fn = "Mtimedelta" =>
        /\ (ret = OverflowError) <=> (ExactSols(call.args) > 999999999
                                        \/ ExactSols(call.args) < -999999999)
        /\ call.args = <<1000000000, 0, 0, 0, 0, 0, 0>> => ret = OverflowError
        /\ call.args = <<999999999, 0, 0, 0, 0, 0, 0>> =>
               ret = [sols |-> 999999999, seconds |-> 0, microseconds |-> 0]

\* sols=999999999 is within the limit, and the carry out of 86399 seconds
\* plus 1000000 microseconds takes it over.
C4_Witness ==
    /\ call.fn = "Mtimedelta"
    /\ call.args = <<999999999, 86399, 1000000, 0, 0, 0, 0>>
    /\ ret = OverflowError

(***************************************************************************)
(* C5.                                                                     *)
(***************************************************************************)
\* C5 as stated: for all a and b, (a + b) - b == a and a + b == b + a.
C5_AsStated ==
    /\ call.fn = "(a + b) - b" =>
          /\ ~Raised(ret)
          /\ Mtimedelta__eq(ret, call.args[1])
    /\ call.fn = "Mtimedelta.__add__" =>
          /\ ~Raised(ret)
          /\ Mtimedelta__eq(ret, Mtimedelta__add(call.args[2], call.args[1]))

\* C5, amended: for all a and b whose sum is within the range (a + b does not
\* raise OverflowError), (a + b) - b == a and a + b == b + a; when the sum is
\* out of range, a + b and b + a both raise OverflowError.
C5_AddSub ==
    /\ call.fn = "(a + b) - b" =>
          IF Raised(Mtimedelta__add(call.args[1], call.args[2]))
          THEN ret = OverflowError
          ELSE ~Raised(ret) /\ Mtimedelta__eq(ret, call.args[1])
    /\ call.fn = "Mtimedelta.__add__" =>
          LET ba == Mtimedelta__add(call.args[2], call.args[1]) IN
          IF Raised(ret) THEN ba = OverflowError
          ELSE ~Raised(ba) /\ Mtimedelta__eq(ret, ba)

\* A sum within the range whose microseconds and seconds both carry.
C5_Witness ==
    /\ call.fn = "(a + b) - b"
    /\ call.args[1] = [sols |-> -1, seconds |-> 86399, microseconds |-> 999999]
    /\ call.args[2] = [sols |-> 1, seconds |-> 86399, microseconds |-> 1]
    /\ ret = call.args[1]

(***************************************************************************)
(* C6.                                                                     *)
(***************************************************************************)
\* C6: for integer arguments that do not overflow, the normalized triple is
\* the exact total of the arguments: microseconds is the total modulo 10^6,
\* and sols * 86400 + seconds is the total's whole seconds (stated field by
\* field, and as the sum where it fits); so Mtimedelta(sols=1),
\* Mtimedelta(seconds=86400) and Mtimedelta(hours=24) are the same value.
C6_Decomposition ==
    (call.fn = "Mtimedelta" /\ ~Raised(ret)) =>
        LET a == call.args IN
        /\ ret.microseconds = (a[3] + a[4]*1000) % 1000000
        /\ ret.seconds = ExactSeconds(a) % 86400
        /\ ret.sols = ExactSols(a)
        /\ (-9 <= ret.sols /\ ret.sols <= 9) =>
               ret.sols*86400 + ret.seconds = (a[1] + a[7]*7)*86400 + ExactSeconds(a)
        /\ a \in {<<1, 0, 0, 0, 0, 0, 0>>, <<0, 86400, 0, 0, 0, 0, 0>>,
                  <<0, 0, 0, 0, 0, 24, 0>>} =>
               Mtimedelta__eq(ret, [sols |-> 1, seconds |-> 0, microseconds |-> 0])

\* Six units of mixed sign at once: 1 sol - 1 s - 1 us - 1 ms + 1440 min
\* - 24 h + 1 week is 7 sols, 86398 s, 998999 us.
C6_Witness ==
    /\ call.fn = "Mtimedelta"
    /\ call.args = <<1, -1, -1, -1, 1440, -24, 1>>
    /\ ret = [sols |-> 7, seconds |-> 86398, microseconds |-> 998999]

(***************************************************************************)
(* Offset providers.  A provider is an object; its identity (Python's      *)
(* "is") is the field id.  The fixed-offset Mtimezone is                   *)
(*   [id, kind |-> "Mtimezone", offset |-> an Mtimedelta]                  *)
(* and a caller-supplied Mtzinfo subclass is                               *)
(*   [id, kind |-> "custom", offsets |-> <<for fold 0, for fold 1>>]       *)
(* whose mtcoffset(dt) answers by dt.fold, each answer None or an          *)
(* Mtimedelta, and whose dst(dt) answers None, or                          *)
(*   [id, kind |-> "rule", switch |-> an hour,                             *)
(*    offsets |-> <<before, from>>, dsts |-> <<before, from>>]             *)
(* whose mtcoffset(dt) and dst(dt) answer by whether dt's wall-clock hour  *)
(* is before the switch hour or not.  Given None instead of a date-time,   *)
(* both subclasses answer as for fold 0, respectively before the switch.   *)
(***************************************************************************)

\* Mtimezone.mtc = Mtimezone._create(Mtimedelta(0))
Mtimezone_mtc ==
    [id |-> 0, kind |-> "Mtimezone", offset |-> Mtimedelta3(0, 0, 0)]

\* Mtimezone._maxoffset, Mtimezone._minoffset
Mtimezone__maxoffset == Mtimedelta(0, 0, -1, 0, 0, 24, 0)
Mtimezone__minoffset == Mtimedelta__neg(Mtimezone__maxoffset)

\* Mtimezone.__new__(offset) without a name; id is the identity of the
\* instance created when one is created.
Mtimezone(offset, id) ==
    IF ~Mtimedelta__bool(offset) THEN Mtimezone_mtc
    ELSE IF ~(Mtimedelta__cmp(Mtimezone__minoffset, offset) <= 0
              /\ Mtimedelta__cmp(offset, Mtimezone__maxoffset) <= 0) THEN ValueError
    ELSE [id |-> id, kind |-> "Mtimezone", offset |-> offset]

\* tz.mtcoffset(dt): Mtimezone.mtcoffset, or the subclass's own method.
Mtzinfo_mtcoffset(tz, dt) ==
    IF tz.kind = "Mtimezone" THEN tz.offset
    ELSE IF tz.kind = "custom"
    THEN tz.offsets[(IF dt = None THEN 0 ELSE dt.fold) + 1]
    ELSE tz.offsets[IF dt = None \/ dt.hour < tz.switch THEN 1 ELSE 2]

\* tz.dst(dt): Mtimezone.dst answers None; or the subclass's own method.
Mtzinfo_dst(tz, dt) ==
    IF tz.kind = "Mtimezone" THEN None
    ELSE IF tz.kind = "custom" THEN None
    ELSE tz.dsts[IF dt = None \/ dt.hour < tz.switch THEN 1 ELSE 2]

\* _check_mtc_offset that lets the two ends of the interval pass.
_check_mtc_offset_closed(offset) ==
    IF offset = None THEN None
    ELSE IF ~(Mtimedelta__cmp(Mtimedelta__neg(Mtimedelta3(1, 0, 0)), offset) <= 0
              /\ Mtimedelta__cmp(offset, Mtimedelta3(1, 0, 0)) <= 0) THEN ValueError
    ELSE None

\* _check_mtc_offset(name, offset) for None or an Mtimedelta: raises
\* ValueError unless -Mtimedelta(1) < offset < Mtimedelta(1), else returns None.
_check_mtc_offset(offset) ==
    IF offset = None THEN None
    ELSE IF ~(Mtimedelta__lt(Mtimedelta__neg(Mtimedelta3(1, 0, 0)), offset)
              /\ Mtimedelta__lt(offset, Mtimedelta3(1, 0, 0))) THEN ValueError
    ELSE None

(***************************************************************************)
(* Mdatetime.  An instance is the record of its fields                     *)
(*   [year, month, sol, hour, minute, second, microsecond, tzinfo, fold]   *)
(* with tzinfo None or a provider.                                         *)
(***************************************************************************)

\* _check_time_fields on integer arguments.
_check_time_fields(hour, minute, second, microsecond, fold) ==
    IF ~(0 <= hour /\ hour <= 23) THEN ValueError
    ELSE IF ~(0 <= minute /\ minute <= 59) THEN ValueError
    ELSE IF ~(0 <= second /\ second <= 59) THEN ValueError
    ELSE IF ~(0 <= microsecond /\ microsecond <= 999999) THEN ValueError
    ELSE IF fold \notin {0, 1} THEN ValueError
    ELSE [hour |-> hour, minute |-> minute, second |-> second,
          microsecond |-> microsecond, fold |-> fold]

\* Mdatetime.__new__ on integer fields and a tzinfo that is None or a provider.
Mdatetime(year, month, sol, hour, minute, second, microsecond, tzinfo, fold) ==
    LET d == _check_date_fields(year, month, sol)
        t == _check_time_fields(hour, minute, second, microsecond, fold)
    IN  IF Raised(d) THEN d
        ELSE IF Raised(t) THEN t
        ELSE [year |-> year, month |-> month, sol |-> sol,
              hour |-> hour, minute |-> minute, second |-> second,
              microsecond |-> microsecond, tzinfo |-> tzinfo, fold |-> fold]

\* self.replace(fold=fold)
Mdatetime_replace_fold(self, fold) ==
    Mdatetime(self.year, self.month, self.sol, self.hour, self.minute,
              self.second, self.microsecond, self.tzinfo, fold)

\* Mdatetime.mtcoffset(): None, the provider's offset, or ValueError when the
\* provider's offset is out of range.
Mdatetime_mtcoffset(self) ==
    IF self.tzinfo = None THEN None
    ELSE LET offset == Mtzinfo_mtcoffset(self.tzinfo, self) IN
         IF Raised(_check_mtc_offset(offset)) THEN ValueError ELSE offset

\* x == y and x != y on two offsets, each None or an Mtimedelta.
OffsetEq(x, y) ==
    IF x = None \/ y = None THEN x = y ELSE Mtimedelta__eq(x, y)

\* The tuple of wall-clock fields that _cmp compares.
Mdatetime_fields(self) ==
    <<self.year, self.month, self.sol, self.hour, self.minute, self.second,
      self.microsecond>>

\* Mdatetime.__sub__ with the two offsets exchanged in the last line.
Mdatetime__sub_swapped(self, other) ==
    LET base == Mtimedelta3(Mdate_toordinal(self) - Mdate_toordinal(other),
                            (self.second + self.minute*60 + self.hour*3600)
                              - (other.second + other.minute*60 + other.hour*3600),
                            self.microsecond - other.microsecond)
        myoff == Mdatetime_mtcoffset(self)
        otoff == Mdatetime_mtcoffset(other)
    IN  IF self.tzinfo = other.tzinfo THEN base
        ELSE IF Raised(myoff) THEN myoff
        ELSE IF Raised(otoff) THEN otoff
        ELSE IF OffsetEq(myoff, otoff) THEN base
        ELSE IF myoff = None \/ otoff = None THEN TypeError
        ELSE Mtimedelta__sub(Mtimedelta__add(base, myoff), otoff)

\* Mdatetime.__sub__(other) for an Mdatetime other.
Mdatetime__sub(self, other) ==
    LET base == Mtimedelta3(Mdate_toordinal(self) - Mdate_toordinal(other),
                            (self.second + self.minute*60 + self.hour*3600)
                              - (other.second + other.minute*60 + other.hour*3600),
                            self.microsecond - other.microsecond)
        myoff == Mdatetime_mtcoffset(self)
        otoff == Mdatetime_mtcoffset(other)
    IN  IF self.tzinfo = other.tzinfo THEN base
        ELSE IF Raised(myoff) THEN myoff
        ELSE IF Raised(otoff) THEN otoff
        ELSE IF OffsetEq(myoff, otoff) THEN base
        ELSE IF myoff = None \/ otoff = None THEN TypeError
        ELSE Mtimedelta__sub(Mtimedelta__add(base, otoff), myoff)

\* Mdatetime._cmp that raises for a naive and an aware operand also when it
\* is called from __eq__.
Mdatetime__cmp_strict(self, other, allow_mixed) ==
    LET myoff  == Mdatetime_mtcoffset(self)
        otoff  == Mdatetime_mtcoffset(other)
        myflip == Mdatetime_mtcoffset(Mdatetime_replace_fold(self, 1 - self.fold))
        otflip == Mdatetime_mtcoffset(Mdatetime_replace_fold(other, 1 - other.fold))
        base   == [value |-> _cmp(Mdatetime_fields(self), Mdatetime_fields(other))]
        diff   == Mdatetime__sub(self, other)
    IN  IF self.tzinfo = other.tzinfo THEN base
        ELSE IF Raised(myoff) THEN myoff
        ELSE IF Raised(otoff) THEN otoff
        ELSE IF allow_mixed /\ Raised(myflip) THEN myflip
        ELSE IF allow_mixed /\ ~OffsetEq(myoff, myflip) THEN [value |-> 2]
        ELSE IF allow_mixed /\ Raised(otflip) THEN otflip
        ELSE IF allow_mixed /\ ~OffsetEq(otoff, otflip) THEN [value |-> 2]
        ELSE IF OffsetEq(myoff, otoff) THEN base
        ELSE IF myoff = None \/ otoff = None THEN TypeError
        ELSE IF Raised(diff) THEN diff
        ELSE IF diff.sols < 0 THEN [value |-> -1]
        ELSE [value |-> IF Mtimedelta__bool(diff) THEN 1 ELSE 0]

\* Mdatetime._cmp without the shortcut for operands that share one provider
\* instance: the offsets are always resolved.
Mdatetime__cmp_no_fast_path(self, other, allow_mixed) ==
    LET myoff  == Mdatetime_mtcoffset(self)
        otoff  == Mdatetime_mtcoffset(other)
        myflip == Mdatetime_mtcoffset(Mdatetime_replace_fold(self, 1 - self.fold))
        otflip == Mdatetime_mtcoffset(Mdatetime_replace_fold(other, 1 - other.fold))
        base   == [value |-> _cmp(Mdatetime_fields(self), Mdatetime_fields(other))]
        diff   == Mdatetime__sub(self, other)
    IN  IF Raised(myoff) THEN myoff
        ELSE IF Raised(otoff) THEN otoff
        ELSE IF allow_mixed /\ Raised(myflip) THEN myflip
        ELSE IF allow_mixed /\ ~OffsetEq(myoff, myflip) THEN [value |-> 2]
        ELSE IF allow_mixed /\ Raised(otflip) THEN otflip
        ELSE IF allow_mixed /\ ~OffsetEq(otoff, otflip) THEN [value |-> 2]
        ELSE IF OffsetEq(myoff, otoff) THEN base
        ELSE IF myoff = None \/ otoff = None
             THEN (IF allow_mixed THEN [value |-> 2] ELSE TypeError)
        ELSE IF Raised(diff) THEN diff
        ELSE IF diff.sols < 0 THEN [value |-> -1]
        ELSE [value |-> IF Mtimedelta__bool(diff) THEN 1 ELSE 0]

\* Mdatetime._cmp without the check that an operand's offset depends on its
\* fold.
Mdatetime__cmp_no_fold_check(self, other, allow_mixed) ==
    LET myoff  == Mdatetime_mtcoffset(self)
        otoff  == Mdatetime_mtcoffset(other)
        base   == [value |-> _cmp(Mdatetime_fields(self), Mdatetime_fields(other))]
        diff   == Mdatetime__sub(self, other)
    IN  IF self.tzinfo = other.tzinfo THEN base
        ELSE IF Raised(myoff) THEN myoff
        ELSE IF Raised(otoff) THEN otoff
        ELSE IF OffsetEq(myoff, otoff) THEN base
        ELSE IF myoff = None \/ otoff = None
             THEN (IF allow_mixed THEN [value |-> 2] ELSE TypeError)
        ELSE IF Raised(diff) THEN diff
        ELSE IF diff.sols < 0 THEN [value |-> -1]
        ELSE [value |-> IF Mtimedelta__bool(diff) THEN 1 ELSE 0]

\* Mdatetime._cmp(other, allow_mixed) for an Mdatetime other: [value |-> n],
\* or the exception raised.
Mdatetime__cmp(self, other, allow_mixed) ==
    LET myoff  == Mdatetime_mtcoffset(self)
        otoff  == Mdatetime_mtcoffset(other)
        myflip == Mdatetime_mtcoffset(Mdatetime_replace_fold(self, 1 - self.fold))
        otflip == Mdatetime_mtcoffset(Mdatetime_replace_fold(other, 1 - other.fold))
        base   == [value |-> _cmp(Mdatetime_fields(self), Mdatetime_fields(other))]
        diff   == Mdatetime__sub(self, other)
    IN  IF self.tzinfo = other.tzinfo THEN base
        ELSE IF Raised(myoff) THEN myoff
        ELSE IF Raised(otoff) THEN otoff
        ELSE IF allow_mixed /\ Raised(myflip) THEN myflip
        ELSE IF allow_mixed /\ ~OffsetEq(myoff, myflip) THEN [value |-> 2]
        ELSE IF allow_mixed /\ Raised(otflip) THEN otflip
        ELSE IF allow_mixed /\ ~OffsetEq(otoff, otflip) THEN [value |-> 2]
        ELSE IF OffsetEq(myoff, otoff) THEN base
        ELSE IF myoff = None \/ otoff = None
             THEN (IF allow_mixed THEN [value |-> 2] ELSE TypeError)
        ELSE IF Raised(diff) THEN diff
        ELSE IF diff.sols < 0 THEN [value |-> -1]
        ELSE [value |-> IF Mtimedelta__bool(diff) THEN 1 ELSE 0]

\* Mdatetime.__eq__, __lt__, __le__, __gt__, __ge__ for an Mdatetime other:
\* [value |-> truth value], or the exception raised.
Mdatetime__eq(self, other) ==
    LET c == Mdatetime__cmp(self, other, TRUE) IN
    IF Raised(c) THEN c ELSE [value |-> c.value = 0]

Mdatetime__lt(self, other) ==
    LET c == Mdatetime__cmp(self, other, FALSE) IN
    IF Raised(c) THEN c ELSE [value |-> c.value < 0]

Mdatetime__le(self, other) ==
    LET c == Mdatetime__cmp(self, other, FALSE) IN
    IF Raised(c) THEN c ELSE [value |-> c.value <= 0]

Mdatetime__gt(self, other) ==
    LET c == Mdatetime__cmp(self, other, FALSE) IN
    IF Raised(c) THEN c ELSE [value |-> c.value > 0]

Mdatetime__ge(self, other) ==
    LET c == Mdatetime__cmp(self, other, FALSE) IN
    IF Raised(c) THEN c ELSE [value |-> c.value >= 0]

\* Mdatetime._getstate()[0] at the default protocol 3: the ten bytes
\* yhi, ylo, month, sol, hour, minute, second, us1, us2, us3.
Mdatetime__getstate(self) ==
    <<self.year \div 256, self.year % 256, self.month, self.sol,
      self.hour, self.minute, self.second,
      (self.microsecond \div 256) \div 256,
      (self.microsecond \div 256) % 256,
      self.microsecond % 256>>

\* A Python object that a __hash__ method hands to the built-in hash(): a
\* bytes object or a tuple, by its type and content.  Two such objects are
\* equal (==) exactly when their types and contents are.  The number the
\* built-in returns for an object is not computed: it is a function of the
\* object, so equal objects have equal hashes, and the hashes of different
\* objects may or may not differ.
PyObject(type, content) == [type |-> type, content |-> content]

\* Mtimedelta.__hash__() returns hash(self._getstate()): the object hashed,
\* the tuple (sols, seconds, microseconds).
Mtimedelta__hash_arg(self) == PyObject("tuple", Mtimedelta__getstate(self))

\* The object hashed by an Mdatetime.__hash__ that resolves the offset at the
\* value's own fold.
Mdatetime__hash_arg_own_fold(self) ==
    LET tzoff == Mdatetime_mtcoffset(self) IN
    IF Raised(tzoff) THEN tzoff
    ELSE IF tzoff = None
         THEN PyObject("bytes", Mdatetime__getstate(Mdatetime_replace_fold(self, 0)))
    ELSE Mtimedelta__hash_arg(Mtimedelta__sub(
             Mtimedelta3(_ymd2ord(self.year, self.month, self.sol),
                         self.hour*3600 + self.minute*60 + self.second,
                         self.microsecond),
             tzoff))

\* Mdatetime.__hash__ on a fresh instance (_hashcode == -1): the object that
\* reaches the built-in hash(), or the exception raised.  A naive value
\* hashes the bytes of its state; an aware one hashes an Mtimedelta, whose
\* __hash__ hashes its tuple.
Mdatetime__hash_arg(self) ==
    LET t     == IF self.fold # 0 THEN Mdatetime_replace_fold(self, 0) ELSE self
        tzoff == Mdatetime_mtcoffset(t)
    IN  IF Raised(tzoff) THEN tzoff
        ELSE IF tzoff = None THEN PyObject("bytes", Mdatetime__getstate(t))
        ELSE Mtimedelta__hash_arg(Mtimedelta__sub(
                 Mtimedelta3(_ymd2ord(self.year, self.month, self.sol),
                             self.hour*3600 + self.minute*60 + self.second,
                             self.microsecond),
                 tzoff))

(***************************************************************************)
(* Inputs of the Mdatetime specification.                                  *)
(***************************************************************************)

\* The fixed-offset zones have whole-hour offsets up to this many hours on
\* each side of MTC.
MaxOffsetHours == 1

Hours(h) == Mtimedelta(0, 0, 0, 0, 0, h, 0)

\* One Mtimezone instance per whole-hour offset (the zero offset gives the
\* Mtimezone.mtc singleton), and a second instance of offset +1h.
FixedZones ==
    {Mtimezone(Hours(h), 10 + h) : h \in (-MaxOffsetHours)..MaxOffsetHours}
    \cup {Mtimezone(Hours(1), 30)}

\* Caller-supplied providers: two instances of one class whose offset is +1h
\* at fold 0 and 0 at fold 1, one that always answers None, one that answers
\* None at fold 0 and +1h at fold 1, and one that answers +1h at fold 0 and
\* None at fold 1.
FoldA == [id |-> 40, kind |-> "custom", offsets |-> <<Hours(1), Hours(0)>>]
FoldB == [id |-> 41, kind |-> "custom", offsets |-> <<Hours(1), Hours(0)>>]
NoneZone == [id |-> 42, kind |-> "custom", offsets |-> <<None, None>>]
HalfNone == [id |-> 43, kind |-> "custom", offsets |-> <<None, Hours(1)>>]
NoneHalf == [id |-> 44, kind |-> "custom", offsets |-> <<Hours(1), None>>]

Tzinfos == {None} \cup FixedZones \cup {FoldA, FoldB, NoneZone, HalfNone, NoneHalf}

\* Wall-clock fields: the last sol of month 13 and the first of month 14 of
\* year 219, at the hours that whole-hour offsets map onto each other, and
\* the last microsecond of the first of these sols.
WallClocks ==
    ({<<219, 13, 28>>, <<219, 14, 1>>} \X {<<0, 0, 0, 0>>, <<1, 0, 0, 0>>, <<23, 0, 0, 0>>})
    \cup {<<<<219, 13, 28>>, <<23, 59, 59, 999999>>>>}

DtPool ==
    {Mdatetime(w[1][1], w[1][2], w[1][3], w[2][1], w[2][2], w[2][3], w[2][4], tz, fold) :
        <<w, tz, fold>> \in WallClocks \X Tzinfos \X {0, 1}}

(***************************************************************************)
(* Mdatetime specification: a run is one comparison or one hash request.   *)
(***************************************************************************)
DtEq ==
    /\ Idle
    /\ UNCHANGED heap
    /\ \E a \in DtPool, b \in DtPool :
          /\ call' = [fn |-> "Mdatetime.__eq__", args |-> <<a, b>>]
          /\ ret' = Mdatetime__eq(a, b)

DtLt ==
    /\ Idle
    /\ UNCHANGED heap
    /\ \E a \in DtPool, b \in DtPool :
          /\ call' = [fn |-> "Mdatetime.__lt__", args |-> <<a, b>>]
          /\ ret' = Mdatetime__lt(a, b)

DtLe ==
    /\ Idle
    /\ UNCHANGED heap
    /\ \E a \in DtPool, b \in DtPool :
          /\ call' = [fn |-> "Mdatetime.__le__", args |-> <<a, b>>]
          /\ ret' = Mdatetime__le(a, b)

DtGt ==
    /\ Idle
    /\ UNCHANGED heap
    /\ \E a \in DtPool, b \in DtPool :
          /\ call' = [fn |-> "Mdatetime.__gt__", args |-> <<a, b>>]
          /\ ret' = Mdatetime__gt(a, b)

DtGe ==
    /\ Idle
    /\ UNCHANGED heap
    /\ \E a \in DtPool, b \in DtPool :
          /\ call' = [fn |-> "Mdatetime.__ge__", args |-> <<a, b>>]
          /\ ret' = Mdatetime__ge(a, b)

\* hash(a): ret is the object hashed, or the exception raised.
DtHash ==
    /\ Idle
    /\ UNCHANGED heap
    /\ \E a \in DtPool :
          /\ call' = [fn |-> "Mdatetime.__hash__", args |-> <<a>>]
          /\ ret' = Mdatetime__hash_arg(a)

NextDt == DtEq \/ DtLt \/ DtLe \/ DtGt \/ DtGe \/ DtHash

SpecDt == Init /\ [][NextDt]_vars

(***************************************************************************)
(* C7.                                                                     *)
(***************************************************************************)
\* The ordinal the reference instants below are counted from.
EpochOrd == _sols_before_year(219)

\* A value is aware when its offset resolves to an Mtimedelta, naive when it
\* resolves to None.
Aware(x) == ~Raised(Mdatetime_mtcoffset(x)) /\ Mdatetime_mtcoffset(x) # None
Naive(x) == Mdatetime_mtcoffset(x) = None

\* The reference (MTC) instant of an aware value: its wall-clock fields minus
\* its resolved offset, as <<whole seconds since EpochOrd, microseconds>>.
RefInstant(x) ==
    LET off == Mdatetime_mtcoffset(x)
        sec == (Mdate_toordinal(x) - EpochOrd - off.sols) * 86400
                 + x.hour*3600 + x.minute*60 + x.second - off.seconds
        us  == x.microsecond - off.microseconds
    IN  <<sec + (us \div 1000000), us % 1000000>>

Precedes(i, j) == i[1] < j[1] \/ (i[1] = j[1] /\ i[2] < j[2])

\* The resolved offset of x is the same at both folds.
FoldStable(x) ==
    OffsetEq(Mdatetime_mtcoffset(x),
             Mdatetime_mtcoffset(Mdatetime_replace_fold(x, 1 - x.fold)))

\* Two aware operands that carry different provider instances.
AwareAcrossProviders ==
    /\ call.args[1].tzinfo # call.args[2].tzinfo
    /\ Aware(call.args[1]) /\ Aware(call.args[2])

\* C7 as stated: two aware values with different providers at the same
\* reference instant compare equal under ==, and a < b holds exactly when
\* a's reference instant precedes b's.
C7_AsStated ==
    /\ (call.fn = "Mdatetime.__eq__" /\ AwareAcrossProviders
          /\ RefInstant(call.args[1]) = RefInstant(call.args[2]))
       => ret = [value |-> TRUE]
    /\ (call.fn = "Mdatetime.__lt__" /\ AwareAcrossProviders)
       => ret = [value |-> Precedes(RefInstant(call.args[1]), RefInstant(call.args[2]))]

\* C7, amended: two aware values with different providers compare equal
\* under == exactly when their reference instants coincide, provided neither
\* value's resolved offset changes when its fold is flipped; when either's
\* does, == is False whatever the instants.  a < b holds exactly when a's
\* reference instant precedes b's.
C7_ReferenceCompare ==
    /\ (call.fn = "Mdatetime.__eq__" /\ AwareAcrossProviders)
       => IF FoldStable(call.args[1]) /\ FoldStable(call.args[2])
          THEN ret = [value |-> RefInstant(call.args[1]) = RefInstant(call.args[2])]
          ELSE ret = [value |-> FALSE]
    /\ (call.fn = "Mdatetime.__lt__" /\ AwareAcrossProviders)
       => ret = [value |-> Precedes(RefInstant(call.args[1]), RefInstant(call.args[2]))]

\* Midnight of 219-14-01 at +1h is 23:00 of 219-13-28 at MTC: equal.
C7_Witness ==
    /\ call.fn = "Mdatetime.__eq__"
    /\ Mdatetime_fields(call.args[1]) = <<219, 14, 1, 0, 0, 0, 0>>
    /\ call.args[1].tzinfo = Mtimezone(Hours(1), 11)
    /\ Mdatetime_fields(call.args[2]) = <<219, 13, 28, 23, 0, 0, 0>>
    /\ call.args[2].tzinfo = Mtimezone_mtc
    /\ ret = [value |-> TRUE]

(***************************************************************************)
(* C8.                                                                     *)
(***************************************************************************)
\* One operand is naive and the other aware.
NaiveWithAware ==
    \/ Naive(call.args[1]) /\ Aware(call.args[2])
    \/ Aware(call.args[1]) /\ Naive(call.args[2])

OrderingFns == {"Mdatetime.__lt__", "Mdatetime.__le__", "Mdatetime.__gt__",
                "Mdatetime.__ge__"}

\* The truth value an operator gives for a three-way comparison result c.
Holds(fn, c) ==
    CASE fn = "Mdatetime.__eq__" -> c = 0
      [] fn = "Mdatetime.__lt__" -> c < 0
      [] fn = "Mdatetime.__le__" -> c <= 0
      [] fn = "Mdatetime.__gt__" -> c > 0
      [] fn = "Mdatetime.__ge__" -> c >= 0

\* C8: for a naive and an aware operand that do not share one provider
\* instance, == returns False without raising, whatever the wall-clock fields,
\* and <, <=, > and >= raise TypeError; operands that share the identical
\* provider instance are compared on their wall-clock fields and nothing is
\* raised.
C8_MixedComparison ==
    /\ (call.fn = "Mdatetime.__eq__" /\ NaiveWithAware
          /\ call.args[1].tzinfo # call.args[2].tzinfo)
       => ret = [value |-> FALSE]
    /\ (call.fn \in OrderingFns /\ NaiveWithAware
          /\ call.args[1].tzinfo # call.args[2].tzinfo)
       => ret = TypeError
    /\ (call.fn \in OrderingFns \cup {"Mdatetime.__eq__"}
          /\ call.args[1].tzinfo = call.args[2].tzinfo)
       => ret = [value |-> Holds(call.fn, _cmp(Mdatetime_fields(call.args[1]),
                                               Mdatetime_fields(call.args[2])))]

\* A value without provider and a value at +1h with the same wall-clock
\* fields: not equal, and nothing raised.
C8_Witness ==
    /\ call.fn = "Mdatetime.__eq__"
    /\ call.args[1].tzinfo = None
    /\ call.args[2].tzinfo = Mtimezone(Hours(1), 11)
    /\ Mdatetime_fields(call.args[1]) = Mdatetime_fields(call.args[2])
    /\ ret = [value |-> FALSE]

(***************************************************************************)
(* C9.                                                                     *)
(***************************************************************************)
\* a and b hand equal objects to the built-in hash(), neither raising: then
\* hash(a) == hash(b), the built-in being a function of the object.
SameHashed(a, b) ==
    /\ ~Raised(Mdatetime__hash_arg(a))
    /\ Mdatetime__hash_arg(a) = Mdatetime__hash_arg(b)

\* C9: two values that compare equal hash the same object, so their hashes
\* are equal; a fold=1 value hashes what its fold=0 counterpart hashes, a
\* naive value the bytes of its raw fields and an aware value the (sols,
\* seconds, microseconds) of its fields minus its offset.
C9_HashEq ==
    /\ (call.fn = "Mdatetime.__eq__" /\ ret = [value |-> TRUE])
       => SameHashed(call.args[1], call.args[2])
    /\ call.fn = "Mdatetime.__hash__"
       => LET x  == call.args[1]
              x0 == Mdatetime_replace_fold(x, 0)
          IN  /\ ret = Mdatetime__hash_arg(x0)
              /\ Naive(x0) => ret = PyObject("bytes", Mdatetime__getstate(x0))
              /\ Aware(x0) => ret = PyObject("tuple",
                     <<(RefInstant(x0)[1] \div 86400) + EpochOrd,
                       RefInstant(x0)[1] % 86400, RefInstant(x0)[2]>>)

\* 23:00 of 219-13-28 at -1h is midnight of 219-14-01 at MTC: the two are
\* equal and hash the same (sols, seconds, microseconds).
C9_Witness ==
    /\ call.fn = "Mdatetime.__eq__"
    /\ Mdatetime_fields(call.args[1]) = <<219, 13, 28, 23, 0, 0, 0>>
    /\ call.args[1].tzinfo = Mtimezone(Hours(-1), 9)
    /\ Mdatetime_fields(call.args[2]) = <<219, 14, 1, 0, 0, 0, 0>>
    /\ call.args[2].tzinfo = Mtimezone_mtc
    /\ ret = [value |-> TRUE]
    /\ SameHashed(call.args[1], call.args[2])

(***************************************************************************)
(* C10.                                                                    *)
(***************************************************************************)
\* The same wall-clock fields at fold 0 and at fold 1, each under a provider
\* whose offset is +1h at fold 0 and 0 at fold 1.
FoldPair ==
    /\ call.fn = "Mdatetime.__eq__"
    /\ Mdatetime_fields(call.args[1]) = Mdatetime_fields(call.args[2])
    /\ call.args[1].fold = 0 /\ call.args[2].fold = 1
    /\ call.args[1].tzinfo \in {FoldA, FoldB}
    /\ call.args[2].tzinfo \in {FoldA, FoldB}

\* C10 as stated: the two values of one provider hash identically (they
\* hash the same object) and compare not-equal.
C10_AsStated ==
    (FoldPair /\ call.args[1].tzinfo = call.args[2].tzinfo) =>
        /\ SameHashed(call.args[1], call.args[2])
        /\ ret = [value |-> FALSE]

\* C10, amended: the two values hash identically (they hash the same
\* object, that of the fold=0 value); they compare equal when they carry the
\* same provider instance (the wall-clock fields are compared and the
\* offsets are not resolved), and not-equal when they carry two instances
\* of the provider.
C10_FoldPair ==
    FoldPair =>
        /\ Mdatetime_mtcoffset(call.args[1]) # Mdatetime_mtcoffset(call.args[2])
        /\ SameHashed(call.args[1], call.args[2])
        /\ Mdatetime__hash_arg(call.args[2])
              = Mdatetime__hash_arg(Mdatetime_replace_fold(call.args[2], 0))
        /\ ret = [value |-> call.args[1].tzinfo = call.args[2].tzinfo]

\* The pair under one provider instance: equal.
C10_Witness ==
    /\ FoldPair
    /\ call.args[1].tzinfo = FoldA /\ call.args[2].tzinfo = FoldA
    /\ ret = [value |-> TRUE]

(***************************************************************************)
(* Mdate arithmetic.                                                       *)
(***************************************************************************)

\* Mdate.__add__ that rounds the duration to the nearest sol instead of
\* taking its sols field.
Mdate__add_rounded(self, other) ==
    LET o == Mdate_toordinal(self) + other.sols
                + (IF other.seconds >= 43200 THEN 1 ELSE 0)
    IN  IF 0 < o /\ o <= _MAXORDINAL THEN Mdate_fromordinal(o)
        ELSE OverflowError

\* Mdate.__add__(other) for an Mtimedelta other.
Mdate__add(self, other) ==
    LET o == Mdate_toordinal(self) + other.sols
    IN  IF 0 < o /\ o <= _MAXORDINAL THEN Mdate_fromordinal(o)
        ELSE OverflowError

\* Subtraction as the addition of the negated duration, part of a sol included.
Mdate__sub_timedelta_negated(self, other) ==
    LET neg == Mtimedelta__neg(other)
    IN  IF Raised(neg) THEN neg ELSE Mdate__add(self, neg)

\* Mdate.__sub__(other) for an Mtimedelta other.
Mdate__sub_timedelta(self, other) ==
    LET neg == Mtimedelta3(-other.sols, 0, 0)
    IN  IF Raised(neg) THEN neg ELSE Mdate__add(self, neg)

\* Mdate.__sub__(other) for an Mdate other.
Mdate__sub(self, other) ==
    Mtimedelta3(Mdate_toordinal(self) - Mdate_toordinal(other), 0, 0)

\* Mdate.weeksol() that counts weeks through the month ends, from the
\* ordinal.
Mdate_weeksol_of_ordinal(self) == (Mdate_toordinal(self) + 5) % 7

\* Mdate.weeksol()
Mdate_weeksol(self) == (self.sol + 5) % 7

(***************************************************************************)
(* Inputs of the Mdate specification.                                      *)
(***************************************************************************)

\* The first and last sols of the first and last months of the band years,
\* and of the months around a 27-sol month.
DatePool ==
    {Mdate(d[1], d[2], d[3]) :
        d \in {e \in BandYears \X {1, 5, 6, 7, 24} \X {1, 27, 28} :
                  e[3] <= _sols_in_month(e[1], e[2])}}

\* Durations of a few sols, of about a month, a year and the whole range,
\* with and without a part of a sol.
DateDeltas ==
    {t \in {Mtimedelta3(d, sec, us) :
               <<d, sec, us>> \in Around({-_MAXORDINAL, -669, -28, 0, 28, 669,
                                          _MAXORDINAL})
                                  \X {-1, 0, 43200} \X {0, 999999}} :
        ~Raised(t)}

(***************************************************************************)
(* Mdate specification: a run is one operation on one date.                *)
(***************************************************************************)
DateAdd ==
    /\ Idle
    /\ UNCHANGED heap
    /\ \E d \in DatePool, x \in DateDeltas :
          /\ call' = [fn |-> "Mdate.__add__", args |-> <<d, x>>]
          /\ ret' = Mdate__add(d, x)

DateSubTimedelta ==
    /\ Idle
    /\ UNCHANGED heap
    /\ \E d \in DatePool, x \in DateDeltas :
          /\ call' = [fn |-> "Mdate.__sub__(Mtimedelta)", args |-> <<d, x>>]
          /\ ret' = Mdate__sub_timedelta(d, x)

\* d - x next to d + (-x): the subtraction, and Mtimedelta.__neg__ followed
\* by Mdate.__add__, on the same date and duration.
DateSubAndAddNeg ==
    /\ Idle
    /\ UNCHANGED heap
    /\ \E d \in DatePool, x \in DateDeltas \cup {Mtimedelta_min, Mtimedelta_max} :
          /\ call' = [fn |-> "d - x, d + (-x)", args |-> <<d, x>>]
          /\ \E neg \in {Mtimedelta__neg(x)} :
                ret' = [sub |-> Mdate__sub_timedelta(d, x),
                        addneg |-> IF Raised(neg) THEN neg
                                   ELSE Mdate__add(d, neg)]

DateSub ==
    /\ Idle
    /\ UNCHANGED heap
    /\ \E d \in DatePool, e \in DatePool :
          /\ call' = [fn |-> "Mdate.__sub__(Mdate)", args |-> <<d, e>>]
          /\ ret' = Mdate__sub(d, e)

DateWeeksol ==
    /\ Idle
    /\ UNCHANGED heap
    /\ \E d \in DatePool :
          /\ call' = [fn |-> "Mdate.weeksol", args |-> <<d>>]
          /\ ret' = Mdate_weeksol(d)

NextDate ==
    DateAdd \/ DateSubTimedelta \/ DateSubAndAddNeg \/ DateSub \/ DateWeeksol

SpecDate == Init /\ [][NextDate]_vars

(***************************************************************************)
(* C11.                                                                    *)
(***************************************************************************)
\* The fields of an Mdate: a year, a month and a sol of that month.
ValidDate(d) ==
    /\ DOMAIN d = {"year", "month", "sol"}
    /\ d.year \in MMINYEAR..MMAXYEAR
    /\ d.month \in 1..24
    /\ d.sol \in 1..(IF d.month \in {6, 12, 18} \/ (d.month = 24 /\ ~LeapRule(d.year))
                     THEN 27 ELSE 28)

\* C11: d + x is the Mdate whose ordinal is d.toordinal() + x.sols, whatever
\* x's seconds and microseconds, and OverflowError is raised exactly when
\* that ordinal is outside [1, 6685945].
C11_DateAdd ==
    call.fn = "Mdate.__add__" =>
        LET o == _ymd2ord(call.args[1].year, call.args[1].month, call.args[1].sol)
                   + call.args[2].sols
        IN  IF 1 <= o /\ o <= 6685945
            THEN /\ ~Raised(ret)
                 /\ ValidDate(ret)
                 /\ _ymd2ord(ret.year, ret.month, ret.sol) = o
            ELSE ret = OverflowError

\* The last sol of year 2000 plus half a sol and 999999 microseconds (sols 0)
\* is the same date.
C11_Witness ==
    /\ call.fn = "Mdate.__add__"
    /\ call.args[1] = [year |-> 2000, month |-> 24, sol |-> 28]
    /\ call.args[2] = [sols |-> 0, seconds |-> 43200, microseconds |-> 999999]
    /\ ret = call.args[1]

(***************************************************************************)
(* Mdatetime arithmetic.                                                   *)
(***************************************************************************)

\* Mtime.__new__ on integer fields and a tzinfo that is None or a provider.
Mtime(hour, minute, second, microsecond, tzinfo, fold) ==
    LET t == _check_time_fields(hour, minute, second, microsecond, fold)
    IN  IF Raised(t) THEN t
        ELSE [hour |-> hour, minute |-> minute, second |-> second,
              microsecond |-> microsecond, tzinfo |-> tzinfo, fold |-> fold]

\* Mdatetime.combine(date, time) with the default tzinfo=True: the time's
\* tzinfo and fold.
Mdatetime_combine(date, time) ==
    Mdatetime(date.year, date.month, date.sol,
              time.hour, time.minute, time.second, time.microsecond,
              time.tzinfo, time.fold)

\* Mdatetime.__add__ that rebuilds the time of sol and leaves the date alone.
Mdatetime__add_no_carry(self, other) ==
    LET delta0 == Mtimedelta(Mdate_toordinal(self), self.second, self.microsecond,
                             0, self.minute, self.hour, 0)
        delta  == Mtimedelta__add(delta0, other)
        hour   == delta.seconds \div 3600
        rem    == delta.seconds % 3600
        o      == Mdate_toordinal(self) + other.sols
    IN  IF Raised(delta) THEN delta
        ELSE IF 0 < o /\ o <= _MAXORDINAL
        THEN Mdatetime_combine(Mdate_fromordinal(o),
                               Mtime(hour, rem \div 60, rem % 60,
                                     delta.microseconds, self.tzinfo, 0))
        ELSE OverflowError

\* Mdatetime.__add__(other) for an Mtimedelta other.
Mdatetime__add(self, other) ==
    LET delta0 == Mtimedelta(Mdate_toordinal(self), self.second, self.microsecond,
                             0, self.minute, self.hour, 0)
        delta  == Mtimedelta__add(delta0, other)
        hour   == delta.seconds \div 3600
        rem    == delta.seconds % 3600
    IN  IF Raised(delta) THEN delta
        ELSE IF 0 < delta.sols /\ delta.sols <= _MAXORDINAL
        THEN Mdatetime_combine(Mdate_fromordinal(delta.sols),
                               Mtime(hour, rem \div 60, rem % 60,
                                     delta.microseconds, self.tzinfo, 0))
        ELSE OverflowError

\* Mdatetime.__sub__(other) for an Mtimedelta other: self + -other.
Mdatetime__sub_timedelta(self, other) ==
    LET neg == Mtimedelta__neg(other)
    IN  IF Raised(neg) THEN neg ELSE Mdatetime__add(self, neg)

(***************************************************************************)
(* Inputs of the Mdatetime arithmetic specification.                       *)
(***************************************************************************)

\* The wall clocks of the comparison specification and the first and last
\* microseconds of the supported range, under every provider.
ArithPool ==
    DtPool \cup
    {Mdatetime(w[1], w[2], w[3], w[4], w[5], w[6], w[7], tz, fold) :
        <<w, tz, fold>> \in {<<0, 1, 1, 0, 0, 0, 0>>,
                             <<9999, 24, 28, 23, 59, 59, 999999>>}
                            \X Tzinfos \X {0, 1}}

\* Durations around zero, of the length of the supported range, and at both
\* ends of the Mtimedelta range.
ArithDeltas ==
    {t \in {Mtimedelta3(d, sec, us) :
               <<d, sec, us>> \in {-MaxSols, -_MAXORDINAL, 1 - _MAXORDINAL, -1, 0, 1,
                                   _MAXORDINAL - 1, _MAXORDINAL, MaxSols}
                                  \X {0, 1, 3600, 86399} \X {0, 1, 999999}} :
        ~Raised(t)}

(***************************************************************************)
(* Mdatetime arithmetic specification: a run is one expression.            *)
(***************************************************************************)
DtAdd ==
    /\ Idle
    /\ UNCHANGED heap
    /\ \E dt \in ArithPool, d \in ArithDeltas :
          /\ call' = [fn |-> "Mdatetime.__add__", args |-> <<dt, d>>]
          /\ ret' = Mdatetime__add(dt, d)

DtAddSubDt ==
    /\ Idle
    /\ UNCHANGED heap
    /\ \E dt \in ArithPool, d \in ArithDeltas :
          /\ call' = [fn |-> "(dt + d) - dt", args |-> <<dt, d>>]
          /\ ret' = LET s == Mdatetime__add(dt, d)
                    IN  IF Raised(s) THEN s ELSE Mdatetime__sub(s, dt)

DtAddSubTd ==
    /\ Idle
    /\ UNCHANGED heap
    /\ \E dt \in ArithPool, d \in ArithDeltas :
          /\ call' = [fn |-> "(dt + d) - d", args |-> <<dt, d>>]
          /\ ret' = LET s == Mdatetime__add(dt, d)
                    IN  IF Raised(s) THEN s ELSE Mdatetime__sub_timedelta(s, d)

DtSub ==
    /\ Idle
    /\ UNCHANGED heap
    /\ \E a \in ArithPool, b \in ArithPool :
          /\ call' = [fn |-> "Mdatetime.__sub__", args |-> <<a, b>>]
          /\ ret' = Mdatetime__sub(a, b)

NextDtArith == DtAdd \/ DtAddSubDt \/ DtAddSubTd \/ DtSub

SpecDtArith == Init /\ [][NextDtArith]_vars

(***************************************************************************)
(* C12.                                                                    *)
(***************************************************************************)
\* Seconds since the start of the sol.
SecondsOfSol(x) == x.hour*3600 + x.minute*60 + x.second

\* The normalized sum of dt's (ordinal, seconds of sol, microsecond) and d:
\* microseconds carried into seconds, seconds into sols.
SumWithDelta(dt, d) ==
    LET us  == dt.microsecond + d.microseconds
        sec == SecondsOfSol(dt) + d.seconds + (us \div 1000000)
    IN  [sols |-> _sols_before_year(dt.year) + _sols_before_month(dt.month)
                    + dt.sol + d.sols + (sec \div 86400),
         seconds |-> sec % 86400,
         microseconds |-> us % 1000000]

InRange(o) == 1 <= o /\ o <= 6685945

\* C12: dt + d is the Mdatetime with dt's provider whose (ordinal, seconds
\* of sol, microsecond) is the normalized sum of dt's and d; then
\* (dt + d) - dt == d and (dt + d) - d == dt; OverflowError is raised exactly
\* when the resulting ordinal is outside [1, 6685945].
C12_DatetimeAdd ==
    LET dt  == call.args[1]
        d   == call.args[2]
        sum == SumWithDelta(dt, d)
    IN  /\ call.fn = "Mdatetime.__add__" =>
              IF InRange(sum.sols)
              THEN /\ ~Raised(ret)
                   /\ ValidDate([year |-> ret.year, month |-> ret.month, sol |-> ret.sol])
                   /\ ret.hour \in 0..23 /\ ret.minute \in 0..59 /\ ret.second \in 0..59
                   /\ ret.tzinfo = dt.tzinfo
                   /\ _ymd2ord(ret.year, ret.month, ret.sol) = sum.sols
                   /\ SecondsOfSol(ret) = sum.seconds
                   /\ ret.microsecond = sum.microseconds
              ELSE ret = OverflowError
        /\ call.fn = "(dt + d) - dt" =>
              IF InRange(sum.sols) THEN ret = d ELSE ret = OverflowError
        /\ call.fn = "(dt + d) - d" =>
              IF InRange(sum.sols)
              THEN ~Raised(ret) /\ Mdatetime__eq(ret, dt) = [value |-> TRUE]
              ELSE ret = OverflowError

\* The last microsecond of 219-13-28 plus one microsecond: the carry runs
\* through the seconds into the date, the first sol of month 14.
C12_Witness ==
    /\ call.fn = "Mdatetime.__add__"
    /\ Mdatetime_fields(call.args[1]) = <<219, 13, 28, 23, 59, 59, 999999>>
    /\ call.args[2] = [sols |-> 0, seconds |-> 0, microseconds |-> 1]
    /\ ~Raised(ret)
    /\ Mdatetime_fields(ret) = <<219, 14, 1, 0, 0, 0, 0>>

(***************************************************************************)
(* C13.                                                                    *)
(***************************************************************************)
\* A count of sols, seconds and microseconds as a normalized triple.
Normalized(sols, seconds, microseconds) ==
    LET sec == seconds + (microseconds \div 1000000)
    IN  [sols |-> sols + (sec \div 86400),
         seconds |-> sec % 86400,
         microseconds |-> microseconds % 1000000]

Ordinal(x) == _sols_before_year(x.year) + _sols_before_month(x.month) + x.sol

\* The resolved offset of x, with None counted as zero.
OffsetOrZero(x) ==
    IF Mdatetime_mtcoffset(x) = None THEN [sols |-> 0, seconds |-> 0, microseconds |-> 0]
    ELSE Mdatetime_mtcoffset(x)

\* The difference of the fields of a and b.
FieldDifference(a, b) ==
    Normalized(Ordinal(a) - Ordinal(b), SecondsOfSol(a) - SecondsOfSol(b),
               a.microsecond - b.microsecond)

\* The difference of the reference instants of a and b: the fields of each
\* less its offset.
ReferenceDifference(a, b) ==
    Normalized(Ordinal(a) - Ordinal(b) + OffsetOrZero(b).sols - OffsetOrZero(a).sols,
               SecondsOfSol(a) - SecondsOfSol(b)
                 + OffsetOrZero(b).seconds - OffsetOrZero(a).seconds,
               a.microsecond - b.microsecond
                 + OffsetOrZero(b).microseconds - OffsetOrZero(a).microseconds)

\* C13: a - b is the field-wise difference when the providers are the
\* identical instance or the resolved offsets are equal (both None included);
\* otherwise it raises TypeError when exactly one resolved offset is None, and
\* is the difference of the two reference instants when both offsets are
\* non-None and differ.  In every non-error case a - b == -(b - a).
C13_DatetimeSub ==
    call.fn = "Mdatetime.__sub__" =>
        LET a == call.args[1]
            b == call.args[2]
        IN  /\ IF a.tzinfo = b.tzinfo
                    \/ Mdatetime_mtcoffset(a) = Mdatetime_mtcoffset(b)
               THEN ret = FieldDifference(a, b)
               ELSE IF Naive(a) \/ Naive(b)
               THEN ret = TypeError
               ELSE ret = ReferenceDifference(a, b)
            /\ ~Raised(ret) =>
                  /\ ~Raised(Mdatetime__sub(b, a))
                  /\ Mtimedelta__eq(ret, Mtimedelta__neg(Mdatetime__sub(b, a)))

\* Midnight of 219-14-01 at +1h less 23:00 of 219-13-28 at -1h: one hour of
\* fields less two hours of offsets.
C13_Witness ==
    /\ call.fn = "Mdatetime.__sub__"
    /\ Mdatetime_fields(call.args[1]) = <<219, 14, 1, 0, 0, 0, 0>>
    /\ call.args[1].tzinfo = Mtimezone(Hours(1), 11)
    /\ Mdatetime_fields(call.args[2]) = <<219, 13, 28, 23, 0, 0, 0>>
    /\ call.args[2].tzinfo = Mtimezone(Hours(-1), 9)
    /\ ret = [sols |-> -1, seconds |-> 82800, microseconds |-> 0]

(***************************************************************************)
(* Offsets of a value, and conversion between providers.                   *)
(***************************************************************************)

\* Mdatetime.dst(): as mtcoffset(), on the provider's dst().
Mdatetime_dst(self) ==
    IF self.tzinfo = None THEN None
    ELSE LET offset == Mtzinfo_dst(self.tzinfo, self) IN
         IF Raised(_check_mtc_offset(offset)) THEN ValueError ELSE offset

\* Mtime.mtcoffset(): the provider is asked with None.
Mtime_mtcoffset(self) ==
    IF self.tzinfo = None THEN None
    ELSE LET offset == Mtzinfo_mtcoffset(self.tzinfo, None) IN
         IF Raised(_check_mtc_offset(offset)) THEN ValueError ELSE offset

\* Mtime.dst()
Mtime_dst(self) ==
    IF self.tzinfo = None THEN None
    ELSE LET offset == Mtzinfo_dst(self.tzinfo, None) IN
         IF Raised(_check_mtc_offset(offset)) THEN ValueError ELSE offset

\* self.replace(tzinfo=tz)
Mdatetime_replace_tzinfo(self, tz) ==
    Mdatetime(self.year, self.month, self.sol, self.hour, self.minute,
              self.second, self.microsecond, tz, self.fold)

\* Mtimezone.frommtc(dt)
Mtimezone_frommtc(self, dt) ==
    IF dt.tzinfo # self THEN ValueError
    ELSE Mdatetime__add(dt, self.offset)

\* Mtzinfo.frommtc that resolves dst() once, before the shift, and uses it
\* after the shift too.
Mtzinfo_frommtc_stale_dst(self, dt) ==
    LET dtoff == Mdatetime_mtcoffset(dt)
        dtdst == Mdatetime_dst(dt)
        delta == Mtimedelta__sub(dtoff, dtdst)
        dt2   == Mdatetime__add(dt, delta)
    IN  IF dt.tzinfo # self THEN ValueError
        ELSE IF Raised(dtoff) THEN dtoff
        ELSE IF dtoff = None THEN ValueError
        ELSE IF Raised(dtdst) THEN dtdst
        ELSE IF dtdst = None THEN ValueError
        ELSE IF ~Mtimedelta__bool(delta) THEN Mdatetime__add(dt, dtdst)
        ELSE IF Raised(dt2) THEN dt2
        ELSE Mdatetime__add(dt2, dtdst)

\* Mtzinfo.frommtc(dt), inherited by the caller-supplied subclasses.
Mtzinfo_frommtc(self, dt) ==
    LET dtoff == Mdatetime_mtcoffset(dt)
        dtdst == Mdatetime_dst(dt)
        delta == Mtimedelta__sub(dtoff, dtdst)
        dt2   == Mdatetime__add(dt, delta)
        dst2  == Mdatetime_dst(dt2)
    IN  IF dt.tzinfo # self THEN ValueError
        ELSE IF Raised(dtoff) THEN dtoff
        ELSE IF dtoff = None THEN ValueError
        ELSE IF Raised(dtdst) THEN dtdst
        ELSE IF dtdst = None THEN ValueError
        ELSE IF ~Mtimedelta__bool(delta) THEN Mdatetime__add(dt, dtdst)
        ELSE IF Raised(dt2) THEN dt2
        ELSE IF Raised(dst2) THEN dst2
        ELSE IF dst2 = None THEN ValueError
        ELSE Mdatetime__add(dt2, dst2)

\* tz.frommtc(dt)
frommtc(tz, dt) ==
    IF tz.kind = "Mtimezone" THEN Mtimezone_frommtc(tz, dt)
    ELSE Mtzinfo_frommtc(tz, dt)

\* The module's _MTC_tz = Mtimezone(Mtimedelta(0)), which is Mtimezone.mtc.
_MTC_tz == Mtimezone(Mtimedelta3(0, 0, 0), 1)

\* Mdatetime.astimezone that attaches the new provider without the shift to
\* MTC.
Mdatetime_astimezone_no_shift(self, tz) ==
    LET own      == IF self.tzinfo = None THEN None
                    ELSE Mtzinfo_mtcoffset(self.tzinfo, self)
        mytz     == IF own = None THEN _MTC_tz ELSE self.tzinfo
    IN  IF tz = mytz THEN self
        ELSE frommtc(tz, Mdatetime_replace_tzinfo(self, tz))

\* Mdatetime.astimezone that returns self unchanged only when self carries
\* tz, and converts a self without an offset like one at MTC.
Mdatetime_astimezone_always_attached(self, tz) ==
    LET own      == IF self.tzinfo = None THEN None
                    ELSE Mtzinfo_mtcoffset(self.tzinfo, self)
        myoffset == IF own = None THEN Mtzinfo_mtcoffset(_MTC_tz, self) ELSE own
        shifted  == Mdatetime__sub_timedelta(self, myoffset)
    IN  IF tz = self.tzinfo THEN self
        ELSE IF Raised(shifted) THEN shifted
        ELSE frommtc(tz, Mdatetime_replace_tzinfo(shifted, tz))

\* Mdatetime.astimezone(tz) for a provider tz.
Mdatetime_astimezone(self, tz) ==
    LET own      == IF self.tzinfo = None THEN None
                    ELSE Mtzinfo_mtcoffset(self.tzinfo, self)
        mytz     == IF own = None THEN _MTC_tz ELSE self.tzinfo
        myoffset == IF own = None THEN Mtzinfo_mtcoffset(_MTC_tz, self) ELSE own
        shifted  == Mdatetime__sub_timedelta(self, myoffset)
    IN  IF tz = mytz THEN self
        ELSE IF Raised(shifted) THEN shifted
        ELSE frommtc(tz, Mdatetime_replace_tzinfo(shifted, tz))

(***************************************************************************)
(* Inputs of the provider specification.                                   *)
(***************************************************************************)
Microseconds(us) == Mtimedelta3(0, 0, us)

\* Providers that answer by the hour of the wall clock, switching at noon:
\* +1h with one more hour of dst from noon on; a constant +1h that is all
\* dst; a constant +1h without dst; +1h whose dst is None from noon on; +1h
\* whose dst is one hour until noon only; a constant +1h of which two hours
\* are dst (a standard offset of -1h).
Seasonal == [id |-> 50, kind |-> "rule", switch |-> 12,
             offsets |-> <<Hours(1), Hours(2)>>, dsts |-> <<Hours(0), Hours(1)>>]
AllDst   == [id |-> 51, kind |-> "rule", switch |-> 12,
             offsets |-> <<Hours(1), Hours(1)>>, dsts |-> <<Hours(1), Hours(1)>>]
NoDst    == [id |-> 52, kind |-> "rule", switch |-> 12,
             offsets |-> <<Hours(1), Hours(1)>>, dsts |-> <<Hours(0), Hours(0)>>]
LateNone == [id |-> 53, kind |-> "rule", switch |-> 12,
             offsets |-> <<Hours(1), Hours(1)>>, dsts |-> <<Hours(0), None>>]
EarlyDst == [id |-> 54, kind |-> "rule", switch |-> 12,
             offsets |-> <<Hours(1), Hours(1)>>, dsts |-> <<Hours(1), Hours(0)>>]
OverDst  == [id |-> 55, kind |-> "rule", switch |-> 12,
             offsets |-> <<Hours(1), Hours(1)>>, dsts |-> <<Hours(2), Hours(2)>>]

RuleZones == {Seasonal, AllDst, NoDst, LateNone, EarlyDst, OverDst}

\* Offsets and dsts on both sides of the ends of the allowed interval.
EdgeOffsets ==
    {Mtimedelta(0, 0, us, 0, 0, h, 0) : <<h, us>> \in {-24, 24} \X {-1, 0, 1}}

\* Providers that answer one of the edge offsets, with a dst of zero, and
\* providers that answer +1h with one of the edge offsets as dst.
EdgeZones ==
    {[id |-> 60, kind |-> "rule", switch |-> 12,
      offsets |-> <<o, o>>, dsts |-> <<Hours(0), Hours(0)>>] : o \in EdgeOffsets}
    \cup
    {[id |-> 61, kind |-> "rule", switch |-> 12,
      offsets |-> <<Hours(1), Hours(1)>>, dsts |-> <<o, o>>] : o \in EdgeOffsets}

\* The providers a value is converted to.
TzTargets == FixedZones \cup RuleZones \cup {FoldA, NoneZone}

\* Wall clocks on both sides of noon and at both ends of the range.
RuleWallClocks ==
    {<<219, 13, 28, h, 30, 0, 0>> : h \in 10..13}
    \cup {<<0, 1, 1, 0, 0, 0, 0>>, <<9999, 24, 28, 23, 59, 59, 999999>>}

TzPool ==
    ArithPool \cup
    {Mdatetime(w[1], w[2], w[3], w[4], w[5], w[6], w[7], tz, fold) :
        <<w, tz, fold>> \in RuleWallClocks \X (RuleZones \cup FixedZones \cup {None})
                            \X {0, 1}}

\* Values and times of sol under the providers with edge offsets.
EdgePool ==
    {Mdatetime(219, 13, 28, h, 30, 0, 0, tz, 0) :
        <<h, tz>> \in {11, 12} \X (EdgeZones \cup RuleZones \cup Tzinfos)}

EdgeTimes ==
    {Mtime(h, 30, 0, 0, tz, 0) :
        <<h, tz>> \in {11, 12} \X (EdgeZones \cup RuleZones \cup Tzinfos)}

(***************************************************************************)
(* Provider specifications: a run is one conversion (SpecTz), or one       *)
(* construction or one offset request (SpecOffset).                        *)
(***************************************************************************)
DtAstimezone ==
    /\ Idle
    /\ UNCHANGED heap
    /\ \E self \in TzPool, tz \in TzTargets :
          /\ call' = [fn |-> "Mdatetime.astimezone", args |-> <<self, tz>>]
          /\ ret' = Mdatetime_astimezone(self, tz)

DtAstimezoneBack ==
    /\ Idle
    /\ UNCHANGED heap
    /\ \E self \in {x \in TzPool : x.tzinfo # None}, tz \in TzTargets :
          /\ call' = [fn |-> "astimezone(tz).astimezone(self.tzinfo)",
                      args |-> <<self, tz>>]
          /\ \E there \in {Mdatetime_astimezone(self, tz)} :
                ret' = IF Raised(there) THEN there
                       ELSE Mdatetime_astimezone(there, self.tzinfo)

TzFrommtc ==
    /\ Idle
    /\ UNCHANGED heap
    /\ \E tz \in TzTargets, dt \in {x \in TzPool : x.tzinfo # None} :
          /\ call' = [fn |-> "frommtc", args |-> <<tz, dt>>]
          /\ ret' = frommtc(tz, dt)

DtNew ==
    /\ Idle
    /\ UNCHANGED heap
    /\ \E h \in {11, 12}, tz \in EdgeZones \cup RuleZones \cup Tzinfos :
          /\ call' = [fn |-> "Mdatetime", args |-> <<219, 13, 28, h, 30, 0, 0, tz, 0>>]
          /\ ret' = Mdatetime(219, 13, 28, h, 30, 0, 0, tz, 0)

DtMtcoffset ==
    /\ Idle
    /\ UNCHANGED heap
    /\ \E self \in EdgePool :
          /\ call' = [fn |-> "Mdatetime.mtcoffset", args |-> <<self>>]
          /\ ret' = Mdatetime_mtcoffset(self)

DtDst ==
    /\ Idle
    /\ UNCHANGED heap
    /\ \E self \in EdgePool :
          /\ call' = [fn |-> "Mdatetime.dst", args |-> <<self>>]
          /\ ret' = Mdatetime_dst(self)

TimeMtcoffset ==
    /\ Idle
    /\ UNCHANGED heap
    /\ \E self \in EdgeTimes :
          /\ call' = [fn |-> "Mtime.mtcoffset", args |-> <<self>>]
          /\ ret' = Mtime_mtcoffset(self)

TimeDst ==
    /\ Idle
    /\ UNCHANGED heap
    /\ \E self \in EdgeTimes :
          /\ call' = [fn |-> "Mtime.dst", args |-> <<self>>]
          /\ ret' = Mtime_dst(self)

TimezoneNew ==
    /\ Idle
    /\ UNCHANGED heap
    /\ \E offset \in EdgeOffsets \cup {Hours(0), Hours(1), Hours(-1)} :
          /\ call' = [fn |-> "Mtimezone", args |-> <<offset>>]
          /\ ret' = Mtimezone(offset, 70)

\* Conversions between providers.
NextTz == DtAstimezone \/ DtAstimezoneBack \/ TzFrommtc

SpecTz == Init /\ [][NextTz]_vars

\* Constructions with a provider and offset requests.
NextOffset ==
    DtNew \/ DtMtcoffset \/ DtDst \/ TimeMtcoffset \/ TimeDst \/ TimezoneNew

SpecOffset == Init /\ [][NextOffset]_vars

(***************************************************************************)
(* C14.                                                                    *)
(***************************************************************************)
\* The provider a value is in: its own when that resolves an offset, and the
\* MTC provider for a value without provider or whose provider answers None.
ProviderOf(x) == IF Naive(x) THEN Mtimezone_mtc ELSE x.tzinfo

\* The fields of x less its offset (zero for a naive x): x at MTC.
AtReference(x) ==
    Normalized(Ordinal(x) - OffsetOrZero(x).sols,
               SecondsOfSol(x) - OffsetOrZero(x).seconds,
               x.microsecond - OffsetOrZero(x).microseconds)

\* The value at MTC plus the offset of a fixed-offset provider.
AtZone(x, tz) ==
    Normalized(AtReference(x).sols + tz.offset.sols,
               AtReference(x).seconds + tz.offset.seconds,
               AtReference(x).microseconds + tz.offset.microseconds)

\* The conversion stays inside the supported range at both steps.
ConversionInRange(x, tz) == InRange(AtReference(x).sols) /\ InRange(AtZone(x, tz).sols)

FixedOffset(tz) == tz # None /\ tz.kind = "Mtimezone"

\* C14: astimezone(tz) returns self unchanged when tz is the provider self
\* is in (MTC for a naive self), and otherwise the result of tz.frommtc on
\* self less its offset with tz attached; for a fixed-offset tz without
\* overflow the result has self's fields minus offset(self) plus offset(tz),
\* an aware self of a fixed-offset provider compares equal to it, and
\* converting back with astimezone(self.tzinfo) restores self's fields.
C14_Astimezone ==
    LET self == call.args[1]
        tz   == call.args[2]
    IN  /\ call.fn = "Mdatetime.astimezone" =>
              IF tz = ProviderOf(self) THEN ret = self
              ELSE /\ LET shifted == Mdatetime__sub_timedelta(self, OffsetOrZero(self))
                      IN  ret = IF Raised(shifted) THEN shifted
                                ELSE frommtc(tz, Mdatetime_replace_tzinfo(shifted, tz))
                   /\ FixedOffset(tz) =>
                         IF ConversionInRange(self, tz)
                         THEN /\ ~Raised(ret)
                              /\ ret.tzinfo = tz
                              /\ Ordinal(ret) = AtZone(self, tz).sols
                              /\ SecondsOfSol(ret) = AtZone(self, tz).seconds
                              /\ ret.microsecond = AtZone(self, tz).microseconds
                              /\ FixedOffset(self.tzinfo) =>
                                    Mdatetime__eq(self, ret) = [value |-> TRUE]
                         ELSE ret = OverflowError
        /\ (call.fn = "astimezone(tz).astimezone(self.tzinfo)"
              /\ FixedOffset(self.tzinfo) /\ FixedOffset(tz)) =>
              IF tz = self.tzinfo THEN ret = self
              ELSE IF ConversionInRange(self, tz)
              THEN /\ ~Raised(ret)
                   /\ ret.tzinfo = self.tzinfo
                   /\ Mdatetime_fields(ret) = Mdatetime_fields(self)
              ELSE ret = OverflowError

\* 23:00 of 219-13-28 at -1h is 01:00 of 219-14-01 at +1h.
C14_Witness ==
    /\ call.fn = "Mdatetime.astimezone"
    /\ Mdatetime_fields(call.args[1]) = <<219, 13, 28, 23, 0, 0, 0>>
    /\ call.args[1].tzinfo = Mtimezone(Hours(-1), 9)
    /\ call.args[2] = Mtimezone(Hours(1), 11)
    /\ ~Raised(ret)
    /\ Mdatetime_fields(ret) = <<219, 14, 1, 1, 0, 0, 0>>
    /\ ret.tzinfo = Mtimezone(Hours(1), 11)

(***************************************************************************)
(* C15.                                                                    *)
(***************************************************************************)
\* A normalized duration strictly between -24h and +24h.
StrictlyWithinOneSol(o) ==
    \/ o.sols = 0
    \/ o.sols = -1 /\ (o.seconds > 0 \/ o.microseconds > 0)

\* What the provider of the receiver answers to the request made.
ProviderAnswer ==
    LET self == call.args[1]
    IN  CASE call.fn = "Mdatetime.mtcoffset" -> Mtzinfo_mtcoffset(self.tzinfo, self)
          [] call.fn = "Mdatetime.dst" -> Mtzinfo_dst(self.tzinfo, self)
          [] call.fn = "Mtime.mtcoffset" -> Mtzinfo_mtcoffset(self.tzinfo, None)
          [] call.fn = "Mtime.dst" -> Mtzinfo_dst(self.tzinfo, None)

OffsetFns == {"Mdatetime.mtcoffset", "Mdatetime.dst", "Mtime.mtcoffset", "Mtime.dst"}

\* C15: mtcoffset() and dst() of Mdatetime and Mtime return None or an
\* Mtimedelta strictly between -24h and +24h, namely the provider's answer,
\* and raise ValueError when the provider's answer is outside that interval;
\* constructing the date-time with such a provider succeeds; Mtimezone
\* accepts exactly the offsets of the same open interval.
C15_OffsetRange ==
    /\ call.fn \in OffsetFns =>
          /\ ~Raised(ret) => (ret = None \/ StrictlyWithinOneSol(ret))
          /\ IF call.args[1].tzinfo = None THEN ret = None
             ELSE IF ProviderAnswer = None THEN ret = None
             ELSE IF StrictlyWithinOneSol(ProviderAnswer) THEN ret = ProviderAnswer
             ELSE ret = ValueError
    /\ call.fn = "Mdatetime" =>
          /\ ~Raised(ret)
          /\ ret.tzinfo = call.args[8]
    /\ call.fn = "Mtimezone" =>
          IF StrictlyWithinOneSol(call.args[1])
          THEN ~Raised(ret) /\ ret.kind = "Mtimezone" /\ ret.offset = call.args[1]
          ELSE ret = ValueError

\* A provider that answers exactly +24h: the request raises ValueError.
C15_Witness ==
    /\ call.fn = "Mdatetime.mtcoffset"
    /\ call.args[1].tzinfo # None
    /\ Mtzinfo_mtcoffset(call.args[1].tzinfo, call.args[1])
         = [sols |-> 1, seconds |-> 0, microseconds |-> 0]
    /\ ret = ValueError

(***************************************************************************)
(* Division of an Mtimedelta by an Mtimedelta.                             *)
(***************************************************************************)

\* Mtimedelta.__floordiv__(other) for an Mtimedelta other
Mtimedelta__floordiv(self, other) ==
    IF Mtimedelta__to_microseconds(other) = 0 THEN ZeroDivisionError
    ELSE [value |-> FloorDiv(Mtimedelta__to_microseconds(self),
                             Mtimedelta__to_microseconds(other))]

\* Operands of both signs of at most 1000 seconds, so that the sum of two
\* totals of microseconds stays below 2^31.
DivPool ==
    {Mtimedelta3(0, sec, us) :
        <<sec, us>> \in {-1000, -7, -1, 0, 1, 7, 999} \X {0, 1, 500000, 999999}}

(***************************************************************************)
(* Division specification: a run is one division of two Mtimedelta.        *)
(***************************************************************************)
TdDivmodTd ==
    /\ Idle
    /\ UNCHANGED heap
    /\ \E a \in DivPool, b \in DivPool :
          /\ call' = [fn |-> "divmod(a, b)", args |-> <<a, b>>]
          /\ ret' = Mtimedelta__divmod(a, b)

TdFloorDivTd ==
    /\ Idle
    /\ UNCHANGED heap
    /\ \E a \in DivPool, b \in DivPool :
          /\ call' = [fn |-> "a // b", args |-> <<a, b>>]
          /\ ret' = Mtimedelta__floordiv(a, b)

TdModTd ==
    /\ Idle
    /\ UNCHANGED heap
    /\ \E a \in DivPool, b \in DivPool :
          /\ call' = [fn |-> "a % b", args |-> <<a, b>>]
          /\ ret' = Mtimedelta__mod(a, b)

NextTdDiv == TdDivmodTd \/ TdFloorDivTd \/ TdModTd

SpecTdDiv == Init /\ [][NextTdDiv]_vars

(***************************************************************************)
(* C16.                                                                    *)
(***************************************************************************)
\* The total of microseconds of a normalized duration.
TotalUs(t) == (t.sols * 86400 + t.seconds) * 1000000 + t.microseconds

\* q is the floor of a / b, for integers a and b # 0.
IsFloorQuotient(q, a, b) ==
    IF b > 0 THEN q * b <= a /\ a - q * b < b
    ELSE q * b >= a /\ a - q * b > b

\* r is zero or of the sign of b, and smaller than b in magnitude.
IsRemainder(r, b) ==
    IF b > 0 THEN 0 <= r /\ r < b ELSE b < r /\ r <= 0

\* C16: for Mtimedelta a and non-zero b of either sign, divmod(a, b) is
\* (q, r) with q the floor of total_us(a) / total_us(b),
\* q * total_us(b) + total_us(r) == total_us(a), and r zero or of the sign of
\* b with |r| < |b|; a // b == q and a % b == r.
C16_Divmod ==
    LET a == TotalUs(call.args[1])
        b == TotalUs(call.args[2])
    IN  /\ (call.fn = "divmod(a, b)" /\ b # 0) =>
              /\ ~Raised(ret)
              /\ IsFloorQuotient(ret.q, a, b)
              /\ ValidTd(ret.r)
              /\ ret.q * b + TotalUs(ret.r) = a
              /\ IsRemainder(TotalUs(ret.r), b)
              /\ Mtimedelta__floordiv(call.args[1], call.args[2]) = [value |-> ret.q]
              /\ Mtimedelta__mod(call.args[1], call.args[2]) = ret.r
        /\ (call.fn = "a // b" /\ b # 0) =>
              ~Raised(ret) /\ IsFloorQuotient(ret.value, a, b)
        /\ (call.fn = "a % b" /\ b # 0) =>
              /\ ~Raised(ret)
              /\ ValidTd(ret)
              /\ IsRemainder(TotalUs(ret), b)
              /\ (a - TotalUs(ret)) % (IF b < 0 THEN -b ELSE b) = 0

\* 7 seconds by -1 second less a microsecond (-999999 us): the quotient is
\* floored to -8 (truncation gives -7) and the remainder is negative.
C16_Witness ==
    /\ call.fn = "divmod(a, b)"
    /\ call.args[1] = [sols |-> 0, seconds |-> 7, microseconds |-> 0]
    /\ call.args[2] = [sols |-> -1, seconds |-> 86399, microseconds |-> 1]
    /\ ret.q = -8
    /\ ret.r = [sols |-> -1, seconds |-> 86399, microseconds |-> 8]

(***************************************************************************)
(* Construction from a POSIX timestamp.                                    *)
(***************************************************************************)

\* The timestamps (whole seconds) given to the constructors.
Timestamps == {-2000000000, -1000000000, -88775, -38, -37, -1, 0, 1, 88775,
               1000000000, 1700000000, 2000000000}

\* y, m, d, hh, mm, ss = _Mfromtimestamp(t) followed by the split of ss into
\* int(ss) and int(us*1e6) that _fromtimestamp makes.  The source computes
\* (t + _TAIMUTC) / _1SOL + 128257.2954262 and its fractions in double
\* precision; the values below are the doubles' results for the timestamps
\* above, as <<y, m, d, hh, mm, ss, us>>.
_Mfromtimestamp(t) ==
    CASE t = -2000000000 -> <<158, 4, 6, 11, 49, 28, 655180>>
      [] t = -1000000000 -> <<174, 24, 15, 21, 27, 44, 744450>>
      [] t = -88775 -> <<191, 20, 25, 7, 6, 1, 71333>>
      [] t = -38 -> <<191, 20, 26, 7, 5, 23, 850435>>
      [] t = -37 -> <<191, 20, 26, 7, 5, 24, 823679>>
      [] t = -1 -> <<191, 20, 26, 7, 5, 59, 860474>>
      [] t = 0 -> <<191, 20, 26, 7, 6, 0, 833719>>
      [] t = 1 -> <<191, 20, 26, 7, 6, 1, 806963>>
      [] t = 88775 -> <<191, 20, 27, 7, 6, 0, 596105>>
      [] t = 1000000000 -> <<208, 17, 8, 16, 44, 16, 922986>>
      [] t = 1700000000 -> <<220, 12, 9, 18, 41, 4, 185475>>
      [] t = 2000000000 -> <<225, 13, 19, 2, 22, 33, 12256>>

\* Mdatetime._fromtimestamp(t, mtc, tz)
Mdatetime__fromtimestamp(t, mtc, tz) ==
    LET f      == _Mfromtimestamp(t)
        result == Mdatetime(f[1], f[2], f[3], f[4], f[5], f[6], f[7], tz, 0)
    IN  IF Raised(result) THEN result
        ELSE IF mtc THEN frommtc(tz, result)
        ELSE result

\* Mdatetime.fromtimestamp(t, tz) for tz None or a provider.
Mdatetime_fromtimestamp(t, tz) == Mdatetime__fromtimestamp(t, tz # None, tz)

\* Mdatetime.mtcfromtimestamp(t)
Mdatetime_mtcfromtimestamp(t) == Mdatetime__fromtimestamp(t, TRUE, _MTC_tz)

(***************************************************************************)
(* Timestamp specification: a run is one construction from a timestamp.    *)
(***************************************************************************)
DtFromTimestamp ==
    /\ Idle
    /\ UNCHANGED heap
    /\ \E t \in Timestamps, tz \in TzTargets \cup {None} :
          /\ call' = [fn |-> "Mdatetime.fromtimestamp", args |-> <<t, tz>>]
          /\ ret' = Mdatetime_fromtimestamp(t, tz)

DtMtcFromTimestamp ==
    /\ Idle
    /\ UNCHANGED heap
    /\ \E t \in Timestamps :
          /\ call' = [fn |-> "Mdatetime.mtcfromtimestamp", args |-> <<t>>]
          /\ ret' = Mdatetime_mtcfromtimestamp(t)

NextStamp == DtFromTimestamp \/ DtMtcFromTimestamp

SpecStamp == Init /\ [][NextStamp]_vars

(***************************************************************************)
(* C17.                                                                    *)
(***************************************************************************)
\* C17: mtcfromtimestamp(t) constructs a naive MTC Mdatetime: the result's
\* tzinfo is None.
C17_NaiveMtc ==
    call.fn = "Mdatetime.mtcfromtimestamp" =>
        ~Raised(ret) /\ ret.tzinfo = None

(***************************************************************************)
(* C18.                                                                    *)
(***************************************************************************)
\* The date with the next ordinal (OverflowError after the last date).
NextDateOf(d) == Mdate__add(d, Mtimedelta3(1, 0, 0))

\* C18 as stated: weeksol() = (sol + 5) mod 7 is a 7-valued cyclic index that
\* advances by exactly 1 (mod 7) from every date to the date with the next
\* ordinal, also into the first sol of the following month, and the first sol
\* of a month does not always have the same index.
C18_AsStated ==
    call.fn = "Mdate.weeksol" =>
        /\ ret = (call.args[1].sol + 5) % 7
        /\ ret \in 0..6
        /\ ~Raised(NextDateOf(call.args[1])) =>
              Mdate_weeksol(NextDateOf(call.args[1])) = (ret + 1) % 7
        /\ \E d \in DatePool, e \in DatePool :
              d.sol = 1 /\ e.sol = 1 /\ Mdate_weeksol(d) # Mdate_weeksol(e)

\* C18, amended: weeksol() = (sol + 5) mod 7 on the sol of the month is a
\* 7-valued index tied to the month: the first sol of every month has index
\* 6; the index advances by 1 (mod 7) to the date with the next ordinal
\* inside a month and from the 28th sol of a month into the next month, and
\* by 2 (mod 7) from the 27th, last sol of a 27-sol month into the next month.
C18_Weeksol ==
    call.fn = "Mdate.weeksol" =>
        LET d == call.args[1]
            n == NextDateOf(d)
        IN  /\ ret = (d.sol + 5) % 7
            /\ ret \in 0..6
            /\ d.sol = 1 => ret = 6
            /\ ~Raised(n) =>
                  /\ n.sol = 1 <=> d.sol = _sols_in_month(d.year, d.month)
                  /\ Mdate_weeksol(n) =
                        (ret + (IF d.sol = 27 /\ n.sol = 1 THEN 2 ELSE 1)) % 7

\* The 27th and last sol of month 6 of year 2001 has index 4; the next date,
\* the first sol of month 7, has index 6.
C18_Witness ==
    /\ call.fn = "Mdate.weeksol"
    /\ call.args[1] = [year |-> 2001, month |-> 6, sol |-> 27]
    /\ ret = 4
    /\ NextDateOf(call.args[1]) = [year |-> 2001, month |-> 7, sol |-> 1]
    /\ Mdate_weeksol(NextDateOf(call.args[1])) = 6

(***************************************************************************)
(* Year specification: a run is one call of _sols_before_year, on a year   *)
(* of the supported range or on the year after it.                         *)
(***************************************************************************)
SolsBeforeYear ==
    /\ Idle
    /\ UNCHANGED heap
    /\ \E y \in MMINYEAR..(MMAXYEAR + 1) :
          /\ call' = [fn |-> "_sols_before_year", args |-> <<y>>]
          /\ ret' = _sols_before_year(y)

NextYear == SolsBeforeYear

SpecYear == Init /\ [][NextYear]_vars

(***************************************************************************)
(* C19.                                                                    *)
(***************************************************************************)
\* The sum of _sols_in_month(y, m) for m in 1..n.
RECURSIVE SolsInMonths(_, _)
SolsInMonths(y, n) ==
    IF n = 0 THEN 0 ELSE SolsInMonths(y, n - 1) + _sols_in_month(y, n)

\* C19: _sols_before_year(0) == 0, and for every y in 0..9999
\* _sols_before_year(y + 1) - _sols_before_year(y) is 669 if _is_leap(y) else
\* 668, which is the sum of _sols_in_month(y, m) over the 24 months; hence
\* _ymd2ord(9999, 24, 28) == 6685945 == _MAXORDINAL.
C19_SolsBeforeYear ==
    call.fn = "_sols_before_year" =>
        LET y == call.args[1]
        IN  /\ y = 0 => ret = 0
            /\ y <= 9999 =>
                  /\ _sols_before_year(y + 1) - ret = (IF _is_leap(y) THEN 669 ELSE 668)
                  /\ _sols_before_year(y + 1) - ret = SolsInMonths(y, 24)
            /\ y = 9999 =>
                  /\ ret + _sols_before_month(24) + 28 = 6685945
                  /\ _ymd2ord(9999, 24, 28) = _MAXORDINAL
                  /\ _MAXORDINAL = 6685945
            /\ y = 10000 => ret = 6685945

\* Across the band boundary 4800/4801: year 4800 is not leap and has 668
\* sols.
C19_Witness ==
    /\ call.fn = "_sols_before_year"
    /\ call.args[1] = 4800
    /\ ret = 3209244
    /\ _sols_before_year(4801) - ret = 668
    /\ ~_is_leap(4800)

(***************************************************************************)
(* C20.                                                                    *)
(***************************************************************************)
\* r is what adding the duration d to dt gives: dt's provider and the
\* normalized sum of the fields, or OverflowError outside the range.
IsSum(r, dt, d) ==
    IF InRange(SumWithDelta(dt, d).sols)
    THEN /\ ~Raised(r)
         /\ r.tzinfo = dt.tzinfo
         /\ Ordinal(r) = SumWithDelta(dt, d).sols
         /\ SecondsOfSol(r) = SumWithDelta(dt, d).seconds
         /\ r.microsecond = SumWithDelta(dt, d).microseconds
    ELSE r = OverflowError

\* The provider answers the same offset and the same dst to every value.
ConstantRule(tz) ==
    /\ tz.kind = "rule"
    /\ tz.offsets[1] = tz.offsets[2] /\ tz.dsts[1] = tz.dsts[2]
    /\ tz.offsets[1] # None /\ tz.dsts[1] # None

\* What Mtzinfo.frommtc(dt) gives but for the closing sentence on constant
\* providers: ValueError when dt.tzinfo is not the provider, when
\* dt.mtcoffset() or dt.dst() is None, or when dst() is None after the shift;
\* otherwise dt + dst when off == dst, and else (dt + (off - dst)) + dst'
\* with dst' resolved once at the shifted value.
FrommtcSteps(tz, dt, r) ==
    LET off     == Mdatetime_mtcoffset(dt)
        dst     == Mdatetime_dst(dt)
        shifted == Mdatetime__add(dt, Mtimedelta__sub(off, dst))
    IN  IF dt.tzinfo # tz THEN r = ValueError
        ELSE IF off = None \/ dst = None THEN r = ValueError
        ELSE IF off = dst THEN IsSum(r, dt, dst)
        ELSE IF Raised(shifted) THEN r = OverflowError
        ELSE IF Mdatetime_dst(shifted) = None THEN r = ValueError
        ELSE /\ IsSum(shifted, dt, Mtimedelta__sub(off, dst))
             /\ IsSum(r, shifted, Mdatetime_dst(shifted))

\* A call of the frommtc that the subclasses inherit from Mtzinfo.
InheritedFrommtc == call.fn = "frommtc" /\ call.args[1].kind # "Mtimezone"

\* C20 as stated: the steps above, and for a provider with constant offset
\* and dst the result is dt + off.
C20_AsStated ==
    InheritedFrommtc =>
        /\ FrommtcSteps(call.args[1], call.args[2], ret)
        /\ (ConstantRule(call.args[1]) /\ call.args[2].tzinfo = call.args[1]) =>
              IsSum(ret, call.args[2], Mdatetime_mtcoffset(call.args[2]))

\* C20, amended: the steps above, and for a provider with constant offset
\* and dst the result is dt + off unless off # dst and the shifted value
\* dt + (off - dst) is outside the supported range, when OverflowError is
\* raised.
C20_Frommtc ==
    InheritedFrommtc =>
        /\ FrommtcSteps(call.args[1], call.args[2], ret)
        /\ (ConstantRule(call.args[1]) /\ call.args[2].tzinfo = call.args[1]) =>
              LET dt  == call.args[2]
                  off == Mdatetime_mtcoffset(dt)
                  dst == Mdatetime_dst(dt)
              IN  IF off # dst
                       /\ ~InRange(SumWithDelta(dt, Mtimedelta__sub(off, dst)).sols)
                  THEN ret = OverflowError
                  ELSE IsSum(ret, dt, off)

\* 11:30 under the provider that adds an hour of dst from noon on: the
\* offset less dst is +1h, the shifted value 12:30 has a dst of 1h, and the
\* result is 13:30.
C20_Witness ==
    /\ call.fn = "frommtc"
    /\ call.args[1] = Seasonal
    /\ call.args[2].tzinfo = Seasonal
    /\ Mdatetime_fields(call.args[2]) = <<219, 13, 28, 11, 30, 0, 0>>
    /\ ~Raised(ret)
    /\ Mdatetime_fields(ret) = <<219, 13, 28, 13, 30, 0, 0>>

(***************************************************************************)
(* Hashing and comparison of Mdate and Mtime.                              *)
(***************************************************************************)
\* Mdate._getstate()[0]: the four bytes yhi, ylo, month, sol.
Mdate__getstate(self) ==
    <<self.year \div 256, self.year % 256, self.month, self.sol>>

\* Mdate.__hash__() on a fresh instance returns hash(self._getstate()): the
\* object hashed, a tuple holding the bytes.
Mdate__hash_arg(self) == PyObject("tuple", <<PyObject("bytes", Mdate__getstate(self))>>)

\* Mtime._getstate()[0] at the default protocol 3: the six bytes
\* hour, minute, second, us1, us2, us3.
Mtime__getstate(self) ==
    <<self.hour, self.minute, self.second,
      (self.microsecond \div 256) \div 256,
      (self.microsecond \div 256) % 256,
      self.microsecond % 256>>

\* self.replace(fold=fold)
Mtime_replace_fold(self, fold) ==
    Mtime(self.hour, self.minute, self.second, self.microsecond, self.tzinfo, fold)

\* divmod(self, Mtimedelta(seconds=unit)) for a whole number of seconds unit:
\* [q, r] with q the floor quotient of the two microsecond counts and r the
\* Mtimedelta of the remainder, or ZeroDivisionError.  With s the whole
\* seconds of self, q is the floor of s / unit, except that for a negative
\* unit the microseconds of self lower it to -(floor(s / -unit) + 1); the
\* remainder is s - q*unit seconds and the microseconds of self.
Mtimedelta__divmod_seconds(self, unit) ==
    LET s == self.sols * (24*3600) + self.seconds
        q == IF unit > 0 THEN FloorDiv(s, unit)
             ELSE IF self.microseconds = 0 THEN FloorDiv(-s, -unit)
             ELSE -(FloorDiv(s, -unit) + 1)
    IN  IF unit = 0 THEN ZeroDivisionError
        ELSE [q |-> q, r |-> Mtimedelta3(0, s - q*unit, self.microseconds)]

\* Mtime.__hash__() on a fresh instance (_hashcode == -1): the object that
\* reaches the built-in hash(), or the exception raised.  hash(Mtime(h, m,
\* second, microsecond)) hashes the bytes of that naive Mtime's state.
Mtime__hash_arg(self) ==
    LET t     == IF self.fold # 0 THEN Mtime_replace_fold(self, 0) ELSE self
        tzoff == Mtime_mtcoffset(t)
        hm    == Mtimedelta__divmod_seconds(
                     Mtimedelta__sub(
                         Mtimedelta3(0, self.hour*3600 + self.minute*60, 0), tzoff),
                     3600)
        part  == Mtimedelta__divmod_seconds(hm.r, 60)
    IN  IF Raised(tzoff) THEN tzoff
        ELSE IF tzoff = None \/ ~Mtimedelta__bool(tzoff)
             THEN PyObject("bytes", Mtime__getstate(t))
        ELSE IF Mtimedelta__bool(part.r) THEN AssertionError
        ELSE IF 0 <= hm.q /\ hm.q < 24
             THEN PyObject("bytes", Mtime__getstate(
                      Mtime(hm.q, part.q, self.second, self.microsecond, None, 0)))
        ELSE PyObject("tuple", <<hm.q, part.q, self.second, self.microsecond>>)

\* Mtime._cmp(other, allow_mixed) for an Mtime other: [value |-> n], or the
\* exception raised.  The offsets enter in whole minutes (myoff //
\* Mtimedelta(minutes=1)).
Mtime__cmp(self, other, allow_mixed) ==
    LET myoff  == Mtime_mtcoffset(self)
        otoff  == Mtime_mtcoffset(other)
        base   == [value |-> _cmp(<<self.hour, self.minute, self.second,
                                    self.microsecond>>,
                                  <<other.hour, other.minute, other.second,
                                    other.microsecond>>)]
        myhhmm == self.hour * 60 + self.minute
                  - Mtimedelta__divmod_seconds(myoff, 60).q
        othhmm == other.hour * 60 + other.minute
                  - Mtimedelta__divmod_seconds(otoff, 60).q
    IN  IF self.tzinfo = other.tzinfo THEN base
        ELSE IF Raised(myoff) THEN myoff
        ELSE IF Raised(otoff) THEN otoff
        ELSE IF OffsetEq(myoff, otoff) THEN base
        ELSE IF myoff = None \/ otoff = None
             THEN (IF allow_mixed THEN [value |-> 2] ELSE TypeError)
        ELSE [value |-> _cmp(<<myhhmm, self.second, self.microsecond>>,
                             <<othhmm, other.second, other.microsecond>>)]

\* Mtime.__eq__(other) for an Mtime other
Mtime__eq(self, other) ==
    LET c == Mtime__cmp(self, other, TRUE) IN
    IF Raised(c) THEN c ELSE [value |-> c.value = 0]

(***************************************************************************)
(* Mtime specification: a run is one hash, or one comparison together with *)
(* the hashes of both operands, on fresh instances.                        *)
(***************************************************************************)
\* Fixed-offset providers Mtimezone.__new__ accepts: whole hours, half an
\* hour, and offsets with a part of a minute; two instances of +1h.
TimeZones ==
    {Mtimezone(Hours(h), 10 + h) : h \in {-23, -1, 0, 1, 2, 23}}
    \cup {Mtimezone(Hours(1), 30),
          Mtimezone(Mtimedelta3(0, 1800, 0), 81),
          Mtimezone(Mtimedelta3(0, 1, 0), 80),
          Mtimezone(Mtimedelta3(0, 59, 999999), 82),
          Mtimezone(Mtimedelta3(-1, 86399, 999999), 83)}

TimePool ==
    {Mtime(h, m, s, 0, tz, fold) :
        <<h, m, s, tz, fold>> \in {0, 11, 12, 23} \X {0, 30} \X {0, 59}
                                  \X (TimeZones \cup {None}) \X {0, 1}}

\* hash(t): ret is the object hashed, or the exception raised.
TimeHash ==
    /\ Idle
    /\ UNCHANGED heap
    /\ \E t \in TimePool :
          /\ call' = [fn |-> "Mtime.__hash__", args |-> <<t>>]
          /\ ret' = Mtime__hash_arg(t)

\* a == b with hash(a) and hash(b): for each hash the object hashed, or the
\* exception raised.
TimeEqHash ==
    /\ Idle
    /\ UNCHANGED heap
    /\ \E a \in {t \in TimePool : t.second = 0 /\ t.fold = 0}, b \in TimePool :
          /\ call' = [fn |-> "a == b, hash(a), hash(b)", args |-> <<a, b>>]
          /\ ret' = [eq |-> Mtime__eq(a, b),
                     hash_a |-> Mtime__hash_arg(a),
                     hash_b |-> Mtime__hash_arg(b)]

NextTime == TimeHash \/ TimeEqHash

SpecTime == Init /\ [][NextTime]_vars

(***************************************************************************)
(* The hash cache.  Every __hash__ has the shape                           *)
(*     if self._hashcode == -1:                                            *)
(*         self._hashcode = hash(...)                                      *)
(*     return self._hashcode                                               *)
(* and nothing synchronizes threads that call it on one shared instance.   *)
(* A thread's steps are the reads and the write of the shared slot: the    *)
(* test, the computation of the hash from the fields, the store, and the   *)
(* read that is returned.  Threads take these steps in any order, and a    *)
(* thread may ask again once it has its answer.                            *)
(*                                                                         *)
(* The fields of an instance never change, so every computation hands the  *)
(* same object to the built-in hash() and gets the same number.  Which     *)
(* number is not modelled: it is any one of HashValues, fixed for the      *)
(* behaviour (call.builtin).                                               *)
(***************************************************************************)
NThreads == 2

Threads == 1..NThreads

\* The slot's value -1.
_hashcode_unset == [hashcode |-> -1]

\* Numbers the built-in hash() may return for the object hashed: it never
\* returns -1.
HashValues == {[hashcode |-> n] : n \in {-2, 0, 7}}

\* The instance as __new__ leaves it: the fields given, self._hashcode = -1.
New(class, fields) ==
    [class |-> class, fields |-> fields, _hashcode |-> _hashcode_unset]

\* What the body of the if hands to the built-in hash(), by class, or the
\* exception it raises before that.
hash_arg(self) ==
    CASE self.class = "Mtimedelta" -> Mtimedelta__hash_arg(self.fields)
      [] self.class = "Mdate"      -> Mdate__hash_arg(self.fields)
      [] self.class = "Mtime"      -> Mtime__hash_arg(self.fields)
      [] self.class = "Mdatetime"  -> Mdatetime__hash_arg(self.fields)

\* self._hashcode = h: the slot's new value, whatever it held.
_hashcode_store(old, h) == h

\* The instances hashed: each class, naive and aware, first and second fold,
\* and an Mtime whose offset is not a whole number of minutes.
HashPool ==
    {New("Mtimedelta", Mtimedelta3(0, 0, 0)),
     New("Mtimedelta", Mtimedelta3(-1, 86399, 999999)),
     New("Mdate", Mdate(219, 13, 28)),
     New("Mdate", Mdate(9999, 24, 28)),
     New("Mtime", Mtime(11, 30, 15, 500000, None, 0)),
     New("Mtime", Mtime(0, 30, 0, 0, Mtimezone(Hours(1), 11), 1)),
     New("Mtime", Mtime(11, 30, 0, 0, Mtimezone(Mtimedelta3(0, 1, 0), 80), 0)),
     New("Mdatetime", Mdatetime(219, 13, 28, 11, 30, 0, 0, None, 0)),
     New("Mdatetime", Mdatetime(219, 13, 28, 11, 30, 0, 0, Mtimezone(Hours(1), 11), 0)),
     New("Mdatetime", Mdatetime(219, 13, 28, 11, 30, 0, 0, FoldA, 1))}

InitHash ==
    /\ \E x \in HashPool, h \in HashValues :
          /\ obj = x
          /\ call = [fn |-> "__hash__", args |-> <<x.fields>>, builtin |-> h]
    /\ pc = [t \in Threads |-> "idle"]
    /\ local = [t \in Threads |-> None]
    /\ ret = [t \in Threads |-> None]

\* A thread calls hash() on the shared instance.
HashCall(t) ==
    /\ pc[t] = "idle"
    /\ pc' = [pc EXCEPT ![t] = "test"]
    /\ local' = [local EXCEPT ![t] = None]
    /\ ret' = [ret EXCEPT ![t] = None]
    /\ UNCHANGED <<call, obj>>

\* if self._hashcode == -1:
HashTest(t) ==
    /\ pc[t] = "test"
    /\ pc' = [pc EXCEPT ![t] = IF obj._hashcode = _hashcode_unset
                                THEN "compute" ELSE "return"]
    /\ UNCHANGED <<call, ret, obj, local>>

\* hash(...) of the fields, held by the thread until it is stored; an
\* exception raised on the way ends the call.
HashCompute(t) ==
    /\ pc[t] = "compute"
    /\ IF Raised(hash_arg(obj))
       THEN /\ ret' = [ret EXCEPT ![t] = hash_arg(obj)]
            /\ pc' = [pc EXCEPT ![t] = "idle"]
            /\ UNCHANGED local
       ELSE /\ local' = [local EXCEPT ![t] = call.builtin]
            /\ pc' = [pc EXCEPT ![t] = "store"]
            /\ UNCHANGED ret
    /\ UNCHANGED <<call, obj>>

\* self._hashcode = ...
HashStore(t) ==
    /\ pc[t] = "store"
    /\ obj' = [obj EXCEPT !._hashcode = _hashcode_store(@, local[t])]
    /\ pc' = [pc EXCEPT ![t] = "return"]
    /\ UNCHANGED <<call, ret, local>>

\* return self._hashcode
HashReturn(t) ==
    /\ pc[t] = "return"
    /\ ret' = [ret EXCEPT ![t] = obj._hashcode]
    /\ pc' = [pc EXCEPT ![t] = "idle"]
    /\ UNCHANGED <<call, obj, local>>

NextHash ==
    \E t \in Threads :
       HashCall(t) \/ HashTest(t) \/ HashCompute(t) \/ HashStore(t) \/ HashReturn(t)

SpecHash == InitHash /\ [][NextHash]_vars

(***************************************************************************)
(* C21.                                                                    *)
(***************************************************************************)
\* The thread's latest request has ended, with a value or an exception.
Answered(t) == pc[t] = "idle" /\ ret[t] # None

\* No request has been made of the instance yet.
Fresh == \A t \in Threads : pc[t] = "idle" /\ ret[t] = None

\* The cache as the claim has it: unset until a request; every request that
\* has ended returned the hash of the fields, and the cache holds it.
CacheInv ==
    /\ Fresh => obj._hashcode = _hashcode_unset
    /\ obj.fields = call.args[1]
    /\ obj._hashcode \in {_hashcode_unset, call.builtin}
    /\ \A t \in Threads :
          Answered(t) => ret[t] = call.builtin /\ obj._hashcode = ret[t]
    /\ \A t, u \in Threads : Answered(t) /\ Answered(u) => ret[t] = ret[u]

CacheStep ==
    /\ obj'.class = obj.class /\ obj'.fields = obj.fields
    /\ obj._hashcode # _hashcode_unset => obj'._hashcode = obj._hashcode

\* C21: construction leaves the cache unset; the first request computes the
\* hash of the instance's fields and stores it; once set the cache never
\* changes, so every later request and every request racing with the first
\* one returns that value and the cache ends holding it; no other field is
\* ever written.
C21_HashCache == []CacheInv /\ [][CacheStep]_vars

\* The instances of HashPool whose __hash__ reaches the built-in.
Hashable == ~Raised(hash_arg(obj))

\* What C21 states does hold of every instance whose __hash__ does not
\* raise.
C21_WhereHashable == [](Hashable => CacheInv) /\ [][CacheStep]_vars

\* Two threads raced on such an instance: both found the cache unset, both
\* computed and stored, and both have their answer, which is what the cache
\* holds.
C21_Raced ==
    /\ \A t \in Threads : Answered(t) /\ local[t] # None
    /\ obj._hashcode # _hashcode_unset
    /\ \A t \in Threads : ret[t] = obj._hashcode

\* A request on the Mtime whose offset has a part of a minute ended with
\* AssertionError, and the cache is still unset.
C21_Raised ==
    \E t \in Threads :
       /\ Answered(t)
       /\ ret[t] = AssertionError
       /\ obj._hashcode = _hashcode_unset

(***************************************************************************)
(* Persisted state: the constructors called on the byte string (a tuple of *)
(* numbers in 0..255 here) of _getstate(), and on the provider when there  *)
(* is one.  tzinfo is None or a provider, so "bad tzinfo state arg" does   *)
(* not arise.  A byte string that fails the test of the pickle branch is   *)
(* handed to the field checks, where _check_int_field raises TypeError.    *)
(***************************************************************************)
\* Mdate.__new__(string): four bytes whose third is in 1..24 are decoded by
\* __setstate, unchecked.
Mdate__new_state(string) ==
    IF 1 <= string[3] /\ string[3] <= 24
    THEN [year |-> string[1] * 256 + string[2], month |-> string[3],
          sol |-> string[4]]
    ELSE TypeError

\* Mtime.__new__(string, tzinfo): six bytes whose first, less its high bit,
\* is below 24 are decoded by __setstate, unchecked.
Mtime__new_state(string, tzinfo) ==
    IF string[1] % 128 < 24
    THEN [hour |-> IF string[1] > 127 THEN string[1] - 128 ELSE string[1],
          minute |-> string[2], second |-> string[3],
          microsecond |-> (string[4] * 256 + string[5]) * 256 + string[6],
          tzinfo |-> tzinfo,
          fold |-> IF string[1] > 127 THEN 1 ELSE 0]
    ELSE TypeError

\* Mdatetime.__new__(string, tzinfo): ten bytes whose third, less its high
\* bit, is in 1..12 are decoded by __setstate, unchecked.
Mdatetime__new_state(string, tzinfo) ==
    IF 1 <= string[3] % 128 /\ string[3] % 128 <= 12
    THEN [year |-> string[1] * 256 + string[2],
          month |-> IF string[3] > 127 THEN string[3] - 128 ELSE string[3],
          sol |-> string[4], hour |-> string[5], minute |-> string[6],
          second |-> string[7],
          microsecond |-> (string[8] * 256 + string[9]) * 256 + string[10],
          tzinfo |-> tzinfo,
          fold |-> IF string[3] > 127 THEN 1 ELSE 0]
    ELSE TypeError

(***************************************************************************)
(* Inputs of the persisted-state specification: byte strings at and beyond *)
(* the edges of every field, and the states of valid values.               *)
(***************************************************************************)
\* yhi, ylo: years 0, 1, 9999, 10000, 65535.
YearBytes == {<<0, 0>>, <<0, 1>>, <<39, 15>>, <<39, 16>>, <<255, 255>>}

\* month bytes, with and without the high bit.
MonthBytes == {0, 1, 6, 12, 13, 24, 25, 129, 140, 141, 152, 153}

SolBytes == {0, 1, 27, 28, 29, 255}

\* hour bytes, with and without the high bit.
HourBytes == {0, 23, 24, 128, 151, 152, 255}

\* minute, second
ClockBytes == {<<0, 0>>, <<59, 59>>, <<60, 0>>, <<0, 60>>, <<255, 255>>}

\* us1, us2, us3: 0, 999999, 1000000, 16777215.
MicrosecondBytes == {<<0, 0, 0>>, <<15, 66, 63>>, <<15, 66, 64>>, <<255, 255, 255>>}

StateTzinfos == {None, Mtimezone_mtc, FoldA}

DateStates == {<<y[1], y[2], m, d>> : y \in YearBytes, m \in MonthBytes, d \in SolBytes}

TimeStates ==
    {<<h, c[1], c[2], u[1], u[2], u[3]>> :
        h \in HourBytes, c \in ClockBytes, u \in MicrosecondBytes}

DatetimeStates ==
    {<<d[1], d[2], d[3], d[4], t[1], t[2], t[3], t[4], t[5], t[6]>> :
        d \in {x \in DateStates : x[1] \in {0, 255} /\ x[4] \in {0, 1, 28}},
        t \in {x \in TimeStates : x[1] \in {0, 23, 24} /\ x[4] \in {0, 255}}}

\* Valid values whose state is taken: every month, the ends of the year
\* range, both folds, with and without a provider.
StateDates ==
    {Mdate(y, m, d) : y \in {0, 219, 9999}, m \in 1..24, d \in {1, 27}}

StateTimes ==
    {Mtime(h, c, c, us, tz, f) :
        h \in {0, 11, 23}, c \in {0, 59}, us \in {0, 999999},
        tz \in StateTzinfos, f \in {0, 1}}

StateDatetimes ==
    {Mdatetime_combine(d, t) :
        d \in {x \in StateDates : x.year # 219},
        t \in {x \in StateTimes : x.hour # 11 /\ x.minute = 59}}

MdateNewState ==
    /\ Idle
    /\ UNCHANGED heap
    /\ \E string \in DateStates :
          /\ call' = [fn |-> "Mdate(state)", args |-> <<string>>]
          /\ ret' = Mdate__new_state(string)

MtimeNewState ==
    /\ Idle
    /\ UNCHANGED heap
    /\ \E string \in TimeStates, tz \in StateTzinfos :
          /\ call' = [fn |-> "Mtime(state)", args |-> <<string, tz>>]
          /\ ret' = Mtime__new_state(string, tz)

MdatetimeNewState ==
    /\ Idle
    /\ UNCHANGED heap
    /\ \E string \in DatetimeStates, tz \in StateTzinfos :
          /\ call' = [fn |-> "Mdatetime(state)", args |-> <<string, tz>>]
          /\ ret' = Mdatetime__new_state(string, tz)

MdateRoundTrip ==
    /\ Idle
    /\ UNCHANGED heap
    /\ \E x \in StateDates :
          /\ call' = [fn |-> "Mdate(*x._getstate())", args |-> <<x>>]
          /\ ret' = Mdate__new_state(Mdate__getstate(x))

MtimeRoundTrip ==
    /\ Idle
    /\ UNCHANGED heap
    /\ \E x \in StateTimes :
          /\ call' = [fn |-> "Mtime(*x._getstate())", args |-> <<x>>]
          /\ ret' = Mtime__new_state(Mtime__getstate(x), x.tzinfo)

MdatetimeRoundTrip ==
    /\ Idle
    /\ UNCHANGED heap
    /\ \E x \in StateDatetimes :
          /\ call' = [fn |-> "Mdatetime(*x._getstate())", args |-> <<x>>]
          /\ ret' = Mdatetime__new_state(Mdatetime__getstate(x), x.tzinfo)

NextState ==
    \/ MdateNewState \/ MtimeNewState \/ MdatetimeNewState
    \/ MdateRoundTrip \/ MtimeRoundTrip \/ MdatetimeRoundTrip

SpecState == Init /\ [][NextState]_vars

(***************************************************************************)
(* C22.                                                                    *)
(***************************************************************************)
HasDate(x) == "year" \in DOMAIN x

HasTime(x) == "hour" \in DOMAIN x

\* The fields of x satisfy the data-model invariants.
FieldsValid(x) ==
    /\ HasDate(x) =>
          /\ MMINYEAR <= x.year /\ x.year <= MMAXYEAR
          /\ 1 <= x.month /\ x.month <= 24
          /\ 1 <= x.sol /\ x.sol <= _sols_in_month(x.year, x.month)
    /\ HasTime(x) =>
          /\ 0 <= x.hour /\ x.hour <= 23
          /\ 0 <= x.minute /\ x.minute <= 59
          /\ 0 <= x.second /\ x.second <= 59
          /\ 0 <= x.microsecond /\ x.microsecond <= 999999

\* C22: a constructor called on a byte state never yields an instance with
\* a field outside its range.
C22_DecodeRejects ==
    (call.fn \in {"Mdate(state)", "Mtime(state)", "Mdatetime(state)"}
        /\ ~Raised(ret))
    => FieldsValid(ret)

(***************************************************************************)
(* What a failed field check reports: the arguments of the ValueError, as  *)
(* [message, low, high, value] for ValueError('<message> low..high',       *)
(* value); None when the fields pass.                                      *)
(***************************************************************************)
\* _check_date_fields that looks at the month before the year.
_check_date_fields_args_month_first(year, month, sol) ==
    IF ~(1 <= month /\ month <= 24)
    THEN [message |-> "month must be in", low |-> 1, high |-> 24, value |-> month]
    ELSE IF ~(MMINYEAR <= year /\ year <= MMAXYEAR)
    THEN [message |-> "year must be in", low |-> MMINYEAR, high |-> MMAXYEAR,
          value |-> year]
    ELSE IF ~(1 <= sol /\ sol <= _sols_in_month(year, month))
    THEN [message |-> "sol must be in", low |-> 1,
          high |-> _sols_in_month(year, month), value |-> sol]
    ELSE None

\* The ValueError of _check_date_fields on integer arguments.
_check_date_fields_args(year, month, sol) ==
    IF ~(MMINYEAR <= year /\ year <= MMAXYEAR)
    THEN [message |-> "year must be in", low |-> MMINYEAR, high |-> MMAXYEAR,
          value |-> year]
    ELSE IF ~(1 <= month /\ month <= 24)
    THEN [message |-> "month must be in", low |-> 1, high |-> 24, value |-> month]
    ELSE IF ~(1 <= sol /\ sol <= _sols_in_month(year, month))
    THEN [message |-> "sol must be in", low |-> 1,
          high |-> _sols_in_month(year, month), value |-> sol]
    ELSE None

\* The ValueError of _check_time_fields on integer arguments.
_check_time_fields_args(hour, minute, second, microsecond, fold) ==
    IF ~(0 <= hour /\ hour <= 23)
    THEN [message |-> "hour must be in", low |-> 0, high |-> 23, value |-> hour]
    ELSE IF ~(0 <= minute /\ minute <= 59)
    THEN [message |-> "minute must be in", low |-> 0, high |-> 59, value |-> minute]
    ELSE IF ~(0 <= second /\ second <= 59)
    THEN [message |-> "second must be in", low |-> 0, high |-> 59, value |-> second]
    ELSE IF ~(0 <= microsecond /\ microsecond <= 999999)
    THEN [message |-> "microsecond must be in", low |-> 0, high |-> 999999,
          value |-> microsecond]
    ELSE IF fold \notin {0, 1}
    THEN [message |-> "fold must be either", low |-> 0, high |-> 1, value |-> fold]
    ELSE None

(***************************************************************************)
(* Construction from integer fields, at and beyond the edges of each       *)
(* field.  ret is [result, error]: the instance or the exception, and what *)
(* the exception reports.                                                  *)
(***************************************************************************)
\* A leap year (0, 3), a non-leap year (2), and the ends of the range.
FieldYears == {-1, 0, 2, 3, 9999, 10000}

FieldMonths == {0, 1, 6, 12, 18, 23, 24, 25}

FieldSols == {0, 1, 27, 28, 29}

FieldHours == {-1, 0, 23, 24}

MdateNew ==
    /\ Idle
    /\ UNCHANGED heap
    /\ \E year \in FieldYears, month \in FieldMonths, sol \in FieldSols :
          /\ call' = [fn |-> "Mdate", args |-> <<year, month, sol>>]
          /\ ret' = [result |-> Mdate(year, month, sol),
                     error |-> _check_date_fields_args(year, month, sol)]

MdatetimeNew ==
    /\ Idle
    /\ UNCHANGED heap
    /\ \E year \in FieldYears, month \in FieldMonths, sol \in FieldSols,
          hour \in FieldHours :
          /\ call' = [fn |-> "Mdatetime",
                      args |-> <<year, month, sol, hour, 0, 0, 0, None, 0>>]
          /\ ret' = [result |-> Mdatetime(year, month, sol, hour, 0, 0, 0, None, 0),
                     error |-> IF _check_date_fields_args(year, month, sol) # None
                               THEN _check_date_fields_args(year, month, sol)
                               ELSE _check_time_fields_args(hour, 0, 0, 0, 0)]

NextFields == MdateNew \/ MdatetimeNew

SpecFields == Init /\ [][NextFields]_vars

(***************************************************************************)
(* C23.                                                                    *)
(***************************************************************************)
\* The length of a month as the claim gives it.
MonthLength(year, month) ==
    IF month \in {6, 12, 18} \/ (month = 24 /\ ~LeapRule(year)) THEN 27 ELSE 28

\* The call raised ValueError reporting this field, range and value.
Reports(message, low, high, value) ==
    /\ ret.result = ValueError
    /\ ret.error = [message |-> message, low |-> low, high |-> high,
                    value |-> value]

\* C23: Mdate and Mdatetime construction from integers raises ValueError for
\* the first invalid field in the order year, month, sol, the sol being
\* checked against the length of the month; an instance is created only
\* when all three are valid.
C23_FieldOrder ==
    call.fn \in {"Mdate", "Mdatetime"} /\ "result" \in DOMAIN ret =>
        LET year == call.args[1]
            month == call.args[2]
            sol == call.args[3]
        IN  IF year < 0 \/ year > 9999
            THEN Reports("year must be in", 0, 9999, year)
            ELSE IF month < 1 \/ month > 24
            THEN Reports("month must be in", 1, 24, month)
            ELSE IF sol < 1 \/ sol > MonthLength(year, month)
            THEN Reports("sol must be in", 1, MonthLength(year, month), sol)
            ELSE IF Raised(ret.result)
            THEN /\ call.fn = "Mdatetime"
                 /\ ret.error.message \notin
                        {"year must be in", "month must be in", "sol must be in"}
            ELSE /\ ret.error = None
                 /\ ret.result.year = year
                 /\ ret.result.month = month
                 /\ ret.result.sol = sol

\* Year 10000 with month 25 and sol 29: all three invalid, the year is
\* reported.
C23_Witness ==
    /\ call.fn = "Mdate"
    /\ call.args = <<10000, 25, 29>>
    /\ "result" \in DOMAIN ret
    /\ ret.result = ValueError
    /\ ret.error.message = "year must be in"

(***************************************************************************)
(* C24.                                                                    *)
(***************************************************************************)
\* k times the total of a, in mixed radix: the microseconds carry into the
\* seconds and the seconds into the sols.
ProductSeconds(a, k) == k * a.seconds + FloorDiv(k * a.microseconds, 1000000)

ProductSols(a, k) == k * a.sols + FloorDiv(ProductSeconds(a, k), 86400)

\* r has exactly k times the total microseconds of a.
IsProduct(r, a, k) ==
    /\ ~Raised(r)
    /\ r.microseconds = FloorMod(k * a.microseconds, 1000000)
    /\ r.seconds = FloorMod(ProductSeconds(a, k), 86400)
    /\ r.sols = ProductSols(a, k)

\* The integer n is nearest to total / k, an exact half going to the even
\* integer.
IsRoundedQuotient(n, total, k) ==
    LET twice == 2 * (total - k * n)
        size  == IF k < 0 THEN -k ELSE k
    IN  /\ -size <= twice /\ twice <= size
        /\ (twice = size \/ twice = -size) => n % 2 = 0

\* r is a / k as the claim gives it.
IsQuotient(r, a, k) ==
    /\ ~Raised(r)
    /\ IsRoundedQuotient(TotalUs(r), TotalUs(a), k)

NegationFns == {"Mtimedelta.__neg__", "Mtimedelta.__abs__", "-(-a)", "a + (-a)"}

\* The negation of a is beyond the range: it would have -1000000000 sols.
NegationOverflows(a) ==
    a.sols = 999999999 /\ (a.seconds # 0 \/ a.microseconds # 0)

\* What each expression gives when the negation exists.
NegationResults ==
    /\ call.fn = "Mtimedelta.__neg__" =>
          ValidTd(ret) /\ IsProduct(ret, call.args[1], -1)
    /\ call.fn = "-(-a)" => ret = call.args[1]
    /\ call.fn = "a + (-a)" =>
          ret = [sols |-> 0, seconds |-> 0, microseconds |-> 0]

\* abs(a) is a for a.sols >= 0 and its negation below, and never raises.
AbsResult ==
    call.fn = "Mtimedelta.__abs__" =>
        /\ ~Raised(ret)
        /\ IF call.args[1].sols < 0 THEN IsProduct(ret, call.args[1], -1)
           ELSE ret = call.args[1]

\* C25 as stated: for every valid a, -a and abs(a) do not raise, -a is
\* valid, a + (-a) == Mtimedelta(0) and -(-a) == a.
C25_AsStated ==
    call.fn \in NegationFns =>
        ~Raised(ret) /\ NegationResults /\ AbsResult

\* C25, amended: abs(a) never raises; -a raises OverflowError exactly when
\* a has 999999999 sols and non-zero seconds or microseconds (Mtimedelta.max
\* among them), and otherwise -a is valid, a + (-a) == Mtimedelta(0) and
\* -(-a) == a.
C25_Negation ==
    call.fn \in NegationFns =>
        /\ AbsResult
        /\ call.fn # "Mtimedelta.__abs__" =>
              IF NegationOverflows(call.args[1]) THEN ret = OverflowError
              ELSE ~Raised(ret) /\ NegationResults

\* Mtimedelta.min negated twice: 999999999 sols in between.
C25_Witness ==
    /\ call.fn = "-(-a)"
    /\ call.args[1] = Mtimedelta_min
    /\ Mtimedelta__neg(call.args[1]) = [sols |-> 999999999, seconds |-> 0,
                                         microseconds |-> 0]
    /\ ret = Mtimedelta_min


(***************************************************************************)
(* C26: subtracting a duration from a date against adding its negation.    *)
(***************************************************************************)
\* The date with ordinal n, or OverflowError outside 1.._MAXORDINAL.
DateAtOrdinal(n) ==
    IF 1 <= n /\ n <= _MAXORDINAL THEN Mdate_fromordinal(n) ELSE OverflowError

WholeSols(x) == x.seconds = 0 /\ x.microseconds = 0

\* C26 as stated: for every Mdate d and Mtimedelta x, d - x equals d + (-x),
\* and both raise OverflowError in the same cases.
C26_AsStated ==
    (call # None /\ call.fn = "d - x, d + (-x)") => ret.sub = ret.addneg

\* C26: for every Mdate d and Mtimedelta x, d - x is the date x.sols sols
\* before d; d + (-x) is that same date when x has no seconds and no
\* microseconds, and the date one sol earlier when it has; each raises
\* OverflowError when its date is outside the supported range.
C26_SubAgainstAddNeg ==
    (call # None /\ call.fn = "d - x, d + (-x)") =>
        LET d == call.args[1]
            x == call.args[2]
            n == Mdate_toordinal(d) - x.sols
        IN  /\ ret.sub = DateAtOrdinal(n)
            /\ ret.addneg = DateAtOrdinal(IF WholeSols(x) THEN n ELSE n - 1)
            /\ WholeSols(x) => ret.sub = ret.addneg

\* A duration with a part of a sol, both results in range: d - x is the sol
\* after d + (-x).
C26_Witness ==
    /\ call # None /\ call.fn = "d - x, d + (-x)"
    /\ ~WholeSols(call.args[2])
    /\ ~Raised(ret.sub) /\ ~Raised(ret.addneg)
    /\ Mdate_toordinal(ret.sub) = Mdate_toordinal(ret.addneg) + 1


(***************************************************************************)
(* C27: the provider carried by the result of astimezone.                  *)
(***************************************************************************)
\* self has no offset of its own: it is naive, or its provider answers None.
WithoutOffset(x) ==
    x.tzinfo = None \/ Mtzinfo_mtcoffset(x.tzinfo, x) = None

\* C27 as stated: for every Mdatetime self, naive or aware, and every
\* provider tz, the MTC provider included, the value astimezone(tz) returns
\* has tz as its tzinfo.
C27_AsStated ==
    (call.fn = "Mdatetime.astimezone" /\ ~Raised(ret)) =>
        ret.tzinfo = call.args[2]

\* C27: the value astimezone(tz) returns has tz as its tzinfo, except that
\* for a self without an offset of its own and tz the MTC provider the
\* result is self unchanged, with self's own tzinfo.
C27_ResultProvider ==
    (call.fn = "Mdatetime.astimezone" /\ ~Raised(ret)) =>
        LET self == call.args[1]
            tz   == call.args[2]
        IN  IF WithoutOffset(self) /\ tz = _MTC_tz
            THEN ret = self /\ ret.tzinfo = self.tzinfo
            ELSE ret.tzinfo = tz

\* A naive value converted to a provider other than MTC carries it.
C27_Witness ==
    /\ call.fn = "Mdatetime.astimezone"
    /\ call.args[1].tzinfo = None
    /\ call.args[2] = Mtimezone(Hours(1), 11)
    /\ ~Raised(ret)
    /\ ret.tzinfo = Mtimezone(Hours(1), 11)
    /\ Mdatetime_fields(ret) # Mdatetime_fields(call.args[1])


(***************************************************************************)
(* C28: the hash of an Mtime under a fixed-offset provider.                *)
(***************************************************************************)
\* C28: for every valid Mtime whose provider is an Mtimezone with any offset
\* the constructor accepts, offsets with non-zero seconds or microseconds
\* included, __hash__ returns a value (the "whole minute" assertion holds),
\* and two Mtime values that compare equal have equal hashes (they hash
\* equal objects).
C28_HashOfTime ==
    /\ call.fn = "Mtime.__hash__" => ~Raised(ret)
    /\ call.fn = "a == b, hash(a), hash(b)" =>
          /\ ~Raised(ret.hash_a) /\ ~Raised(ret.hash_b)
          /\ ret.eq = [value |-> TRUE] => ret.hash_a = ret.hash_b


(***************************************************************************)
(* C29: a value rebuilt from its own persisted state.                      *)
(***************************************************************************)
\* The fields and the provider of an instance, fold apart.
StateFields == {"year", "month", "sol", "hour", "minute", "second",
                "microsecond", "tzinfo"}

\* C29: for every valid Mdate, Mtime and Mdatetime x, every month 1..24
\* included, the constructor called on the arguments x._getstate() returns
\* takes the state-decoding path and yields an instance whose year, month,
\* sol, hour, minute, second, microsecond and provider are those of x.
C29_RoundTrip ==
    call.fn \in {"Mdate(*x._getstate())", "Mtime(*x._getstate())",
                 "Mdatetime(*x._getstate())"} =>
        LET x == call.args[1]
        IN  /\ ~Raised(ret)
            /\ \A f \in StateFields \cap DOMAIN x : ret[f] = x[f]


(***************************************************************************)
(* Mdatetime.ctime().  The string "%s %s %2d %02d:%02d:%02d %04d" is kept  *)
(* as the record of the values formatted into it.  Python lists are        *)
(* indexed from 0 and sequences from 1: L[i] is written L[i + 1].          *)
(***************************************************************************)
_MONTHNAMES ==
    <<None,
      "Sag", "Dha", "Cap", "Mak", "Aqu", "Kum",
      "Pis", "Min", "Ari", "Mes", "Tau", "Ris",
      "Gem", "Mit", "Can", "Kar", "Leo", "Sim",
      "Vir", "Kan", "Lib", "Tul", "Sco", "Vri">>

_SOLNAMES == <<"Lu", "Ma", "Me", "Jo", "Ve", "Sa", "So">>

\* weeksol = self.toordinal() % 7 or 7
Mdatetime_ctime_weeksol(self) ==
    IF Mdate_toordinal(self) % 7 # 0 THEN Mdate_toordinal(self) % 7 ELSE 7

\* Mdatetime.ctime(): the values formatted, or IndexError when weeksol is
\* not an index of _SOLNAMES.
Mdatetime_ctime(self) ==
    LET weeksol == Mdatetime_ctime_weeksol(self)
    IN  IF ~(0 <= weeksol /\ weeksol < Len(_SOLNAMES)) THEN IndexError
        ELSE [solname |-> _SOLNAMES[weeksol + 1],
              monthname |-> _MONTHNAMES[self.month + 1],
              sol |-> self.sol, hour |-> self.hour, minute |-> self.minute,
              second |-> self.second, year |-> self.year]

\* Every sol of the first weeks of a year, and the sols around the ends of
\* the months of the first and last years and of a year of the middle.
CtimePool ==
    {x \in {Mdatetime(y, m, d, 11, 30, 15, 0, None, 0) :
               y \in {0, 1, 219, 9999}, m \in {1, 2, 6, 12, 13, 24}, d \in 1..28} :
        ~Raised(x)}

(***************************************************************************)
(* ctime specification: a run is one value's ctime() and weeksol().        *)
(***************************************************************************)
DtCtime ==
    /\ Idle
    /\ UNCHANGED heap
    /\ \E x \in CtimePool :
          /\ call' = [fn |-> "x.ctime(), x.weeksol()", args |-> <<x>>]
          /\ ret' = [ctime |-> Mdatetime_ctime(x), weeksol |-> Mdate_weeksol(x)]

NextCtime == DtCtime

SpecCtime == Init /\ [][NextCtime]_vars

(***************************************************************************)
(* C30.                                                                    *)
(***************************************************************************)
\* C30: ctime() succeeds for every valid Mdatetime: the index it computes
\* (toordinal() % 7 or 7) is an index of the 7-entry _SOLNAMES table, and
\* the sol name it prints is the one at index weeksol() of the same value.
C30_Ctime ==
    call.fn = "x.ctime(), x.weeksol()" =>
        /\ ~Raised(ret.ctime)
        /\ Mdatetime_ctime_weeksol(call.args[1]) \in 0..(Len(_SOLNAMES) - 1)
        /\ ret.ctime.solname = _SOLNAMES[ret.weeksol + 1]

====
